---- MODULE Spec2Model ----
(***************************************************************************)
(* Model of the editor's effect handlers (editor/store/effects.js).        *)
(*                                                                         *)
(* The store is a record `state`; `optimist` is the transaction history    *)
(* kept by the optimistic-update reducer enhancer; `requests` are the      *)
(* apiFetch promises that have not settled yet, each with the variables    *)
(* its callbacks close over.  Every step is one intent handled to the end  *)
(* (a handler runs synchronously up to its request) or one request         *)
(* settling and its then/catch callback running to the end.  `intent` is   *)
(* what triggered the step and `out` the actions dispatched during it.     *)
(***************************************************************************)
EXTENDS Integers, Sequences, FiniteSets, TLC

VARIABLES
    state,          \* the store: getState()
    optimist,       \* the transaction history of the optimistic reducer
    requests,       \* the apiFetch promises not settled yet
    nreq,           \* requests issued so far
    nintents,       \* intents handled so far
    uid,            \* lodash's uniqueId counter
    nextClientId,   \* the next client id createBlock / parse hands out
    intent,         \* what triggered the last step
    out,            \* the actions dispatched during the last step, in order
    txlog,          \* per transaction id: BEGINs, COMMITs and REVERTs dispatched
    promoted,       \* per temporary id: SAVE_REUSABLE_BLOCK_SUCCESS dispatched for it
    converted       \* per reference block made by a conversion: the block converted

vars == <<state, optimist, requests, nreq, nintents, uid, nextClientId, intent, out, txlog, promoted, converted>>

-----------------------------------------------------------------------------
(* Bounds of the model *)

\* requests issued in one behaviour
MaxRequests == 2
\* intents handled in one behaviour
MaxIntents == 2
\* values handed out by uniqueId()
MaxUid == 2
\* client ids handed out to new blocks
MaxClientId == 8

-----------------------------------------------------------------------------
(* Module constants of effects.js and the values of its collaborators *)

SAVE_POST_NOTICE_ID == "SAVE_POST_NOTICE_ID"
AUTOSAVE_POST_NOTICE_ID == "AUTOSAVE_POST_NOTICE_ID"
TRASH_POST_NOTICE_ID == "TRASH_POST_NOTICE_ID"
REUSABLE_BLOCK_NOTICE_ID == "REUSABLE_BLOCK_NOTICE_ID"

BEGIN == "BEGIN"
COMMIT == "COMMIT"
REVERT == "REVERT"
POST_UPDATE_TRANSACTION_ID == "post-update"

publishStatus == {"publish", "private", "future"}

\* post ids the server can answer with: the document's own and another one
PostIds == {7, 99}
Statuses == {"auto-draft", "draft", "publish", "private", "future"}
Titles == {"t", "x"}
\* error values {code, message} of the persistence service
Errors ==
    { [code |-> "rest_autosave_no_changes", message |-> "No changes."],
      [code |-> "unknown_error", message |-> "Unknown."],
      [code |-> "forbidden", message |-> "No."],
      [code |-> "forbidden", message |-> ""] }

-----------------------------------------------------------------------------
(* Helpers on partial maps (JavaScript objects) *)

\* { ...f, ...g }
Spread(f, g) ==
    [k \in (DOMAIN f) \cup (DOMAIN g) |-> IF k \in DOMAIN g THEN g[k] ELSE f[k]]

\* lodash pick( f, keys )
pick(f, keys) == [k \in (DOMAIN f) \cap keys |-> f[k]]

\* lodash omit( f, keys )
omit(f, keys) == [k \in (DOMAIN f) \ keys |-> f[k]]

EmptyObject == [k \in {} |-> 0]

RECURSIVE SeqToSet(_)
SeqToSet(s) == IF s = <<>> THEN {} ELSE {Head(s)} \cup SeqToSet(Tail(s))

RECURSIVE FilterSeq(_, _)
FilterSeq(s, keep) ==
    IF s = <<>> THEN <<>>
    ELSE IF Head(s) \in keep THEN <<Head(s)>> \o FilterSeq(Tail(s), keep)
    ELSE FilterSeq(Tail(s), keep)

-----------------------------------------------------------------------------
(* The store: reducers of the editor state, one case per action type *)

\* reducer `editor.edits` on UPDATE_POST / RESET_POST: an edit whose value
\* equals the value now held by the post is no longer an edit
dropSavedEdits(edits, canonical) ==
    [k \in {x \in DOMAIN edits : ~(x \in DOMAIN canonical /\ canonical[x] = edits[x])}
        |-> edits[k]]

ReducePost(s, a) ==
    CASE a.type = "EDIT_POST" ->
            [s EXCEPT !.edits = Spread(s.edits, a.edits), !.isDirty = TRUE]
      [] a.type = "UPDATE_POST" ->
            [s EXCEPT !.currentPost = Spread(s.currentPost, pick(a.edits, DOMAIN s.currentPost)),
                      !.edits = dropSavedEdits(s.edits, a.edits)]
      [] a.type = "RESET_POST" ->
            [s EXCEPT !.currentPost = a.post,
                      !.edits = dropSavedEdits(s.edits, a.post)]
      [] a.type = "RESET_AUTOSAVE" ->
            [s EXCEPT !.autosave = pick(a.post, {"title"})]
      [] a.type = "REQUEST_POST_UPDATE_START" ->
            [s EXCEPT !.isDirty = FALSE]
      [] a.type = "DIRTY_ARTIFICIALLY" ->
            [s EXCEPT !.isDirty = TRUE]
      [] a.type = "CREATE_NOTICE" ->
            [s EXCEPT !.notices = Spread(s.notices, [k \in {a.notice.id} |-> a.notice])]
      [] a.type = "REMOVE_NOTICE" ->
            [s EXCEPT !.notices = omit(s.notices, {a.noticeId})]
      [] OTHER -> s

\* the parent of a block in the tree: 0 is the root, -1 when it is in no list
parentOf(order, id) ==
    IF \E p \in DOMAIN order : id \in SeqToSet(order[p])
    THEN CHOOSE p \in DOMAIN order : id \in SeqToSet(order[p])
    ELSE -1

RECURSIVE descendants(_, _)
descendants(order, ids) ==
    LET kids == UNION {SeqToSet(order[p]) : p \in ids \cap DOMAIN order}
    IN  IF kids \subseteq ids THEN ids ELSE descendants(order, ids \cup kids)

\* REMOVE_BLOCKS on the tree: the blocks and all their inner blocks go
removeFromTree(s, ids) ==
    LET gone == descendants(s.order, ids)
        keep == (DOMAIN s.order) \ gone
    IN  [s EXCEPT !.blocks = omit(s.blocks, gone),
                  !.order = [p \in keep |-> FilterSeq(s.order[p], (DOMAIN s.blocks) \ gone)]]

indexOf(s, x) == IF \E i \in 1..Len(s) : s[i] = x
                 THEN CHOOSE i \in 1..Len(s) : s[i] = x /\ \A j \in 1..(i - 1) : s[j] # x
                 ELSE 0

\* a block object is [clientId, name, attributes, innerBlocks]; the store
\* keeps it flat as blocks[clientId] = [name, attributes] and order[clientId]
RECURSIVE flatten(_)
flatten(bs) ==
    IF bs = <<>> THEN <<>>
    ELSE <<Head(bs)>> \o flatten(Head(bs).innerBlocks) \o flatten(Tail(bs))

clientIdsOf(bs) == [i \in 1..Len(bs) |-> bs[i].clientId]

\* RECEIVE_BLOCKS: register the blocks (and their inner blocks) by client id
receiveIntoStore(s, bs) ==
    LET fl == flatten(bs)
        ids == {fl[i].clientId : i \in 1..Len(fl)}
        byId(id) == fl[CHOOSE i \in 1..Len(fl) : fl[i].clientId = id]
    IN  [s EXCEPT !.blocks = Spread(s.blocks,
                        [id \in ids |-> [name |-> byId(id).name,
                                         attributes |-> byId(id).attributes]]),
                  !.order = Spread(s.order,
                        [id \in ids |-> clientIdsOf(byId(id).innerBlocks)])]

\* the list s with every occurrence of `first` replaced by the list t and
\* every other member of `drop` left out
RECURSIVE replaceInList(_, _, _, _)
replaceInList(s, first, t, drop) ==
    IF s = <<>> THEN <<>>
    ELSE (IF Head(s) = first THEN t
          ELSE IF Head(s) \in drop THEN <<>> ELSE <<Head(s)>>)
         \o replaceInList(Tail(s), first, t, drop)

\* REPLACE_BLOCKS: the new blocks take the place of the first replaced one
replaceInTree(s, clientIds, bs) ==
    LET old == SeqToSet(clientIds)
        s1 == receiveIntoStore([s EXCEPT !.blocks = omit(@, old),
                                         !.order = omit(@, old)], bs)
    IN  [s1 EXCEPT !.order = [p \in DOMAIN @ |->
                        replaceInList(@[p], clientIds[1], clientIdsOf(bs), old)]]

\* the ids uniqueId( 'reusable' ) hands out: an entry under one of them has
\* not been persisted
isTemporaryId(id) == id \in {"reusable" \o ToString(n) : n \in 1..(MaxUid + 1)}

ReduceBlocks(s, a) ==
    CASE a.type = "SELECT_BLOCK" ->
            [s EXCEPT !.blockSelection = [start |-> a.clientId, end |-> a.clientId]]
      [] a.type = "CLEAR_SELECTED_BLOCK" ->
            [s EXCEPT !.blockSelection = [start |-> 0, end |-> 0]]
      [] a.type = "MULTI_SELECT" ->
            [s EXCEPT !.blockSelection = [start |-> a.start, end |-> a.end]]
      [] a.type = "REMOVE_BLOCKS" ->
            LET gone == descendants(s.order, SeqToSet(a.clientIds))
                s1 == removeFromTree(s, SeqToSet(a.clientIds))
            IN  [s1 EXCEPT !.blockSelection =
                               IF @.start \in gone \/ @.end \in gone
                               THEN [start |-> 0, end |-> 0] ELSE @,
                           !.provisionalBlockClientId = IF @ \in gone THEN 0 ELSE @]
      [] a.type = "REPLACE_BLOCKS" ->
            LET s1 == replaceInTree(s, a.clientIds, a.blocks)
                sel == IF a.blocks = <<>> THEN 0 ELSE a.blocks[1].clientId
            IN  [s1 EXCEPT !.blockSelection =
                               IF @.start \in SeqToSet(a.clientIds)
                               THEN [start |-> sel, end |-> sel] ELSE @,
                           !.provisionalBlockClientId =
                               IF @ \in SeqToSet(a.clientIds) THEN 0 ELSE @]
      [] a.type = "RECEIVE_BLOCKS" -> receiveIntoStore(s, a.blocks)
      [] a.type = "RECEIVE_REUSABLE_BLOCKS" ->
            [s EXCEPT !.reusableBlocks = Spread(@,
                [id \in {a.results[i].reusableBlock.id : i \in 1..Len(a.results)} |->
                    LET r == a.results[CHOOSE i \in 1..Len(a.results) :
                                           a.results[i].reusableBlock.id = id]
                    IN  [clientId |-> r.parsedBlock.clientId,
                         isTemporary |-> isTemporaryId(r.reusableBlock.id)]])]
      [] a.type = "REMOVE_REUSABLE_BLOCK" ->
            [s EXCEPT !.reusableBlocks = omit(@, {a.id})]
      [] a.type = "SAVE_REUSABLE_BLOCK_SUCCESS" ->
            IF a.id = a.updatedId \/ a.id \notin DOMAIN s.reusableBlocks THEN s
            ELSE [s EXCEPT
                    !.reusableBlocks = Spread(omit(@, {a.id}),
                        [id \in {a.updatedId} |->
                            [clientId |-> s.reusableBlocks[a.id].clientId,
                             isTemporary |-> FALSE]]),
                    !.blocks = [b \in DOMAIN @ |->
                        IF @[b].name = "core/block" /\ @[b].attributes.ref = a.id
                        THEN [@[b] EXCEPT !.attributes.ref = a.updatedId] ELSE @[b]]]
      [] OTHER -> s

\* RESET_BLOCKS, SETUP_EDITOR_STATE: the tree becomes the blocks given
resetTree(s, bs) ==
    receiveIntoStore([s EXCEPT !.blocks = pick(@, {}), !.order = (0 :> clientIdsOf(bs))], bs)

ReduceTemplate(s, a) ==
    CASE a.type = "SET_TEMPLATE_VALIDITY" ->
            [s EXCEPT !.isValidTemplate = a.isValid]
      [] a.type = "SETUP_EDITOR_STATE" ->
            [resetTree(s, a.blocks) EXCEPT !.currentPost = a.post,
                                           !.edits = Spread(@, a.edits)]
      [] a.type = "RESET_BLOCKS" -> resetTree(s, a.blocks)
      [] a.type = "INSERT_BLOCKS" ->
            LET s1 == receiveIntoStore(s, a.blocks)
                sel == a.blocks[Len(a.blocks)].clientId
            IN  [s1 EXCEPT !.order[0] = @ \o clientIdsOf(a.blocks),
                           !.blockSelection = [start |-> sel, end |-> sel]]
      [] OTHER -> s

Reduce(s, a) == ReduceTemplate(ReduceBlocks(ReducePost(s, a), a), a)

-----------------------------------------------------------------------------
(* The optimistic-update enhancer wrapped around the reducer.  An entry of  *)
(* the history is [action] or, for the BEGIN of a transaction,              *)
(* [beforeState, action].                                                   *)

matchesTransaction(a, id) == "optimist" \in DOMAIN a /\ a.optimist.id = id

isBeginEntry(e) == "beforeState" \in DOMAIN e

baseReducer(opt, inner, a) ==
    [optimist |-> IF Len(opt) > 0 THEN Append(opt, [action |-> a]) ELSE opt,
     state |-> Reduce(inner, a)]

beginReducer(opt, inner, a) ==
    [optimist |-> Append(opt, [beforeState |-> inner, action |-> a]),
     state |-> Reduce(inner, a)]

\* the fold of commitReducer over the history: acc = [new, started]
RECURSIVE commitFold(_, _, _)
commitFold(opt, id, acc) ==
    IF opt = <<>> THEN acc.new
    ELSE LET entry == Head(opt)
             m == isBeginEntry(entry) /\ matchesTransaction(entry.action, id)
         IN  IF acc.started
             THEN commitFold(Tail(opt), id,
                    [acc EXCEPT !.new = Append(@, IF m THEN [action |-> entry.action] ELSE entry)])
             ELSE IF isBeginEntry(entry) /\ ~m
             THEN commitFold(Tail(opt), id, [new |-> Append(acc.new, entry), started |-> TRUE])
             ELSE commitFold(Tail(opt), id, acc)

commitReducer(opt, inner, a) ==
    baseReducer(commitFold(opt, a.optimist.id, [new |-> <<>>, started |-> FALSE]), inner, a)

\* the fold of revertReducer: acc = [new, started, got, cur]
RECURSIVE revertFold(_, _, _)
revertFold(opt, id, acc) ==
    IF opt = <<>> THEN acc
    ELSE LET entry == Head(opt)
             m == matchesTransaction(entry.action, id)
             got == acc.got \/ (isBeginEntry(entry) /\ m)
             cur0 == IF isBeginEntry(entry) /\ m THEN entry.beforeState ELSE acc.cur
             started == acc.started \/ (~m /\ isBeginEntry(entry))
             new == IF m \/ ~started THEN acc.new
                    ELSE IF got /\ isBeginEntry(entry)
                         THEN Append(acc.new, [beforeState |-> cur0, action |-> entry.action])
                         ELSE Append(acc.new, entry)
             cur == IF ~m /\ got THEN Reduce(cur0, entry.action) ELSE cur0
         IN  revertFold(Tail(opt), id, [new |-> new, started |-> started, got |-> got, cur |-> cur])

revertReducer(opt, inner, a) ==
    LET r == revertFold(opt, a.optimist.id,
                        [new |-> <<>>, started |-> FALSE, got |-> FALSE, cur |-> inner])
    IN  baseReducer(r.new, r.cur, a)

optimistReducer(opt, inner, a) ==
    IF "optimist" \in DOMAIN a /\ a.optimist.type = BEGIN THEN beginReducer(opt, inner, a)
    ELSE IF "optimist" \in DOMAIN a /\ a.optimist.type = COMMIT THEN commitReducer(opt, inner, a)
    ELSE IF "optimist" \in DOMAIN a /\ a.optimist.type = REVERT THEN revertReducer(opt, inner, a)
    ELSE baseReducer(opt, inner, a)

-----------------------------------------------------------------------------
(* Action creators (./actions) used by the handlers *)

updatePost(edits) == [type |-> "UPDATE_POST", edits |-> edits]
resetPost(post) == [type |-> "RESET_POST", post |-> post]
resetAutosave(post) == [type |-> "RESET_AUTOSAVE", post |-> post]
removeNotice(id) == [type |-> "REMOVE_NOTICE", noticeId |-> id]
createNotice(status, content, link, id) ==
    [type |-> "CREATE_NOTICE",
     notice |-> [id |-> id, status |-> status, content |-> content, link |-> link]]
createSuccessNotice(content, link, id) == createNotice("success", content, link, id)
createErrorNotice(content, id) == createNotice("error", content, FALSE, id)
createWarningNotice(content, link, id) == createNotice("warning", content, link, id)

selectBlock(clientId) == [type |-> "SELECT_BLOCK", clientId |-> clientId]
removeBlocks(clientIds, selectPrevious) ==
    [type |-> "REMOVE_BLOCKS", clientIds |-> clientIds, selectPrevious |-> selectPrevious]
removeBlock(clientId, selectPrevious) == removeBlocks(<<clientId>>, selectPrevious)
replaceBlocks(clientIds, blocks) ==
    [type |-> "REPLACE_BLOCKS", clientIds |-> clientIds, blocks |-> blocks]
replaceBlock(clientId, block) == replaceBlocks(<<clientId>>, <<block>>)
receiveBlocks(blocks) == [type |-> "RECEIVE_BLOCKS", blocks |-> blocks]
receiveReusableBlocks(results) == [type |-> "RECEIVE_REUSABLE_BLOCKS", results |-> results]
saveReusableBlock(id) == [type |-> "SAVE_REUSABLE_BLOCK", id |-> id]
setTemplateValidity(isValid) == [type |-> "SET_TEMPLATE_VALIDITY", isValid |-> isValid]
setupEditorState(post, blocks, edits) ==
    [type |-> "SETUP_EDITOR_STATE", post |-> post, blocks |-> blocks, edits |-> edits]
resetBlocks(blocks) == [type |-> "RESET_BLOCKS", blocks |-> blocks]
insertBlock(block) == [type |-> "INSERT_BLOCKS", blocks |-> <<block>>]

(* Selectors (./selectors) read by the handlers *)

\* getBlock: the block with its inner blocks nested, NoBlock when unknown
NoBlock == [clientId |-> -1]
isNull(b) == b.clientId = -1

RECURSIVE getBlock(_, _)
getBlock(s, id) ==
    IF id \notin DOMAIN s.blocks THEN NoBlock
    ELSE [clientId |-> id,
          name |-> s.blocks[id].name,
          attributes |-> s.blocks[id].attributes,
          innerBlocks |-> IF id \in DOMAIN s.order
                          THEN [i \in 1..Len(s.order[id]) |-> getBlock(s, s.order[id][i])]
                          ELSE <<>>]

\* getBlocks( state ): the top-level blocks
getBlocks(s) == [i \in 1..Len(s.order[0]) |-> getBlock(s, s.order[0][i])]

NoReusableBlock == [id |-> ""]
getReusableBlock(s, id) ==
    IF id \in DOMAIN s.reusableBlocks
    THEN [id |-> id, clientId |-> s.reusableBlocks[id].clientId,
          isTemporary |-> s.reusableBlocks[id].isTemporary]
    ELSE NoReusableBlock

getProvisionalBlockClientId(s) == s.provisionalBlockClientId
\* a template is the list of the names of its blocks; NoTemplate stands for
\* the undefined template of settings without one
NoTemplate == <<"undefined">>
getTemplate(s) == s.template
\* "" when the settings lock nothing
getTemplateLock(s) == s.templateLock
getBlockCount(s) == Len(s.order[0])
isBlockSelected(s, id) == s.blockSelection.start = id /\ s.blockSelection.end = id
\* the selected block, NoBlock (null) when none or several are selected
getSelectedBlock(s) ==
    IF s.blockSelection.start # s.blockSelection.end \/ s.blockSelection.start = 0
    THEN NoBlock ELSE getBlock(s, s.blockSelection.start)
\* '' (0) for a top-level block, null (-1) for a block in no list
getBlockRootClientId(s, id) == parentOf(s.order, id)
getPreviousBlockClientId(s, id) ==
    LET root == parentOf(s.order, id)
        i == IF root = -1 THEN 0 ELSE indexOf(s.order[root], id)
    IN  IF i <= 1 THEN -1 ELSE s.order[root][i - 1]

(* The block type registry (@wordpress/blocks) *)

isReusableBlock(b) == b.name = "core/block"
\* getBlockType( name ).merge is defined
hasMerge(name) == name \in {"core/paragraph", "core/heading"}
\* blockType.merge( attributesA, attributesB )
mergeAttributes(name, attrsA, attrsB) == [content |-> attrsA.content \o attrsB.content]
\* switchToBlockType( block, name ): the blocks the transform yields, the first
\* keeping the client id of the source; none when no transform applies
switchToBlockType(b, name, fresh) ==
    IF b.name = "core/heading" /\ name = "core/paragraph"
    THEN <<[clientId |-> b.clientId, name |-> name,
            attributes |-> b.attributes, innerBlocks |-> <<>>]>>
    ELSE IF b.name = "core/list" /\ name = "core/paragraph"
    THEN <<[clientId |-> b.clientId, name |-> name,
            attributes |-> b.attributes, innerBlocks |-> <<>>],
           [clientId |-> fresh, name |-> name,
            attributes |-> b.attributes, innerBlocks |-> <<>>]>>
    ELSE <<>>

getCurrentPost(s) == s.currentPost
getPostEdits(s) == s.edits
getAutosave(s) == s.autosave
isEditedPostNew(s) == s.currentPost.status = "auto-draft"
\* the serialised tree: the names of the top-level blocks, in order
getEditedPostContent(s) == [i \in 1..Len(s.order[0]) |-> s.blocks[s.order[0][i]].name]

-----------------------------------------------------------------------------
(* The effect handlers.  A handler reads the store when it starts and then  *)
(* dispatches; it is given here as the list of what it does, in order: the  *)
(* actions it dispatches and these steps of its own:                        *)
(*   [type |-> "@@apiFetch", request]  a request is issued                   *)
(*   [type |-> "@@uniqueId"]           lodash's uniqueId() is called         *)
(*   [type |-> "@@uuid", count]        client ids are drawn for new blocks   *)
(* c is the context the handler starts in: the store, the counters.         *)

apiFetch(r) == [type |-> "@@apiFetch", request |-> r]
uniqueId == [type |-> "@@uniqueId"]
uuid(n) == [type |-> "@@uuid", count |-> n]

\* REQUEST_POST_UPDATE past its gate: the transaction begins, the edits are
\* applied optimistically and the request is issued
REQUEST_POST_UPDATE_request(c, action) ==
    LET post == getCurrentPost(c.state)
        isAutosave == action.options.autosave
        edits0 == IF isAutosave THEN pick(getPostEdits(c.state), {"title", "content", "excerpt"})
                                ELSE getPostEdits(c.state)
        edits == IF isEditedPostNew(c.state)
                    THEN Spread([status |-> "draft"], edits0) ELSE edits0
        toSend == Spread(edits, [content |-> getEditedPostContent(c.state), id |-> post.id])
        data == Spread(Spread(Spread(pick(post, {"title", "content", "excerpt"}),
                                     getAutosave(c.state)), toSend), [parent |-> post.id])
        begin == << [type |-> "REQUEST_POST_UPDATE_START",
                     optimist |-> [type |-> BEGIN, id |-> POST_UPDATE_TRANSACTION_ID],
                     isAutosave |-> isAutosave],
                    Spread(updatePost(toSend),
                           [optimist |-> [type |-> "", id |-> POST_UPDATE_TRANSACTION_ID]]) >>
    IN  IF isAutosave
        THEN begin \o << apiFetch([kind |-> "save", method |-> "POST", data |-> data,
                                   isAutosave |-> isAutosave, post |-> post,
                                   edits |-> edits]) >>
        ELSE begin \o << removeNotice(SAVE_POST_NOTICE_ID),
                         removeNotice(AUTOSAVE_POST_NOTICE_ID),
                         apiFetch([kind |-> "save", method |-> "PUT", data |-> toSend,
                                   isAutosave |-> isAutosave, post |-> post,
                                   edits |-> edits]) >>

\* the handler with its gate left out
REQUEST_POST_UPDATE_ungated(c, action) == REQUEST_POST_UPDATE_request(c, action)

\* action.isSaveable: the verdict of isEditedPostAutosaveable for an autosave,
\* of isEditedPostSaveable otherwise
REQUEST_POST_UPDATE(c, action) ==
    IF ~action.isSaveable THEN <<>> ELSE REQUEST_POST_UPDATE_request(c, action)

\* the callback resolving the transaction as COMMIT whatever id comes back
REQUEST_POST_UPDATE_then_alwaysCommit(c, r, newPost) ==
    << IF r.isAutosave THEN resetAutosave(newPost) ELSE resetPost(newPost),
       [type |-> "REQUEST_POST_UPDATE_SUCCESS",
        previousPost |-> r.post,
        post |-> newPost,
        optimist |-> [type |-> COMMIT, id |-> POST_UPDATE_TRANSACTION_ID],
        isAutosave |-> r.isAutosave] >>

\* request.then( ( newPost ) => ... ) of REQUEST_POST_UPDATE
REQUEST_POST_UPDATE_then(c, r, newPost) ==
    LET reset == IF r.isAutosave THEN resetAutosave(newPost) ELSE resetPost(newPost)
        isRevision == newPost.id # r.post.id
    IN  << reset,
           [type |-> "REQUEST_POST_UPDATE_SUCCESS",
            previousPost |-> r.post,
            post |-> newPost,
            optimist |-> [type |-> IF isRevision THEN REVERT ELSE COMMIT,
                          id |-> POST_UPDATE_TRANSACTION_ID],
            isAutosave |-> r.isAutosave] >>

\* the callback reporting the failure without resolving the transaction
REQUEST_POST_UPDATE_catch_withoutRevert(c, r, error) ==
    << [type |-> "REQUEST_POST_UPDATE_FAILURE",
        post |-> r.post,
        edits |-> r.edits,
        error |-> error] >>

\* .catch( ( error ) => ... ) of REQUEST_POST_UPDATE
REQUEST_POST_UPDATE_catch(c, r, error) ==
    << [type |-> "REQUEST_POST_UPDATE_FAILURE",
        optimist |-> [type |-> REVERT, id |-> POST_UPDATE_TRANSACTION_ID],
        post |-> r.post,
        edits |-> r.edits,
        error |-> error] >>

\* the message chosen from the returned status alone
successNoticeMessage_fromReturnedStatus(previousPost, post) ==
    IF post.status \notin publishStatus THEN ""
    ELSE CASE post.status = "publish" -> "Post published!"
           [] post.status = "private" -> "Post published privately!"
           [] post.status = "future" -> "Post scheduled!"

\* "" stands for the null noticeMessage
successNoticeMessage(previousPost, post) ==
    LET isPublished == previousPost.status \in publishStatus
        willPublish == post.status \in publishStatus
    IN  IF ~isPublished /\ ~willPublish THEN ""
        ELSE IF isPublished /\ ~willPublish THEN "Post reverted to draft."
        ELSE IF ~isPublished /\ willPublish
        THEN CASE post.status = "publish" -> "Post published!"
               [] post.status = "private" -> "Post published privately!"
               [] post.status = "future" -> "Post scheduled!"
        ELSE "Post updated!"

shouldShowLink(previousPost, post) ==
    ~(previousPost.status \in publishStatus /\ post.status \notin publishStatus)

\* edits that remain after a save flag the post dirty again
dirtyArtificially(c) ==
    IF DOMAIN getPostEdits(c.state) # {} THEN << [type |-> "DIRTY_ARTIFICIALLY"] >> ELSE <<>>

\* the notice of a full save, none when the message is null
savedNotice(action) ==
    LET noticeMessage == successNoticeMessage(action.previousPost, action.post)
    IN  IF noticeMessage # ""
        THEN << createSuccessNotice(noticeMessage,
                    shouldShowLink(action.previousPost, action.post),
                    SAVE_POST_NOTICE_ID) >>
        ELSE <<>>

\* the handler without its early return for autosaves
REQUEST_POST_UPDATE_SUCCESS_notifyingAutosave(c, action) ==
    dirtyArtificially(c) \o savedNotice(action)

REQUEST_POST_UPDATE_SUCCESS(c, action) ==
    dirtyArtificially(c) \o (IF action.isAutosave THEN <<>> ELSE savedNotice(action))

\* the handler choosing the message from the attempted status alone
REQUEST_POST_UPDATE_FAILURE_fromEditsOnly(c, action) ==
    LET noticeMessage ==
            IF "status" \in DOMAIN action.edits /\ action.edits.status \in publishStatus
            THEN IF action.edits.status = "future" THEN "Scheduling failed"
                                                   ELSE "Publishing failed"
            ELSE "Updating failed"
    IN  IF action.error.code = "rest_autosave_no_changes" THEN <<>>
        ELSE << createErrorNotice(noticeMessage, SAVE_POST_NOTICE_ID) >>

REQUEST_POST_UPDATE_FAILURE(c, action) ==
    LET isPublished == action.post.status \in publishStatus
        noticeMessage ==
            IF ~isPublished /\ "status" \in DOMAIN action.edits
                            /\ action.edits.status \in publishStatus
            THEN IF action.edits.status = "future" THEN "Scheduling failed"
                                                   ELSE "Publishing failed"
            ELSE "Updating failed"
    IN  IF action.error.code = "rest_autosave_no_changes" THEN <<>>
        ELSE << createErrorNotice(noticeMessage, SAVE_POST_NOTICE_ID) >>

TRASH_POST(c, action) ==
    << removeNotice(TRASH_POST_NOTICE_ID),
       apiFetch([kind |-> "trash", method |-> "DELETE", action |-> action]) >>

TRASH_POST_then(c, r) ==
    << resetPost(Spread(getCurrentPost(c.state), [status |-> "trash"])) >>

TRASH_POST_catch(c, r, error) ==
    << Spread(r.action, [type |-> "TRASH_POST_FAILURE", error |-> error]) >>

\* the handler reporting the message of the server whatever the code
TRASH_POST_FAILURE_serverMessage(c, action) ==
    LET message == IF action.error.message # ""
                      THEN action.error.message ELSE "Trashing failed"
    IN  << createErrorNotice(message, TRASH_POST_NOTICE_ID) >>

TRASH_POST_FAILURE(c, action) ==
    LET message == IF action.error.message # "" /\ action.error.code # "unknown_error"
                      THEN action.error.message ELSE "Trashing failed"
    IN  << createErrorNotice(message, TRASH_POST_NOTICE_ID) >>

REFRESH_POST(c, action) ==
    << apiFetch([kind |-> "refresh", method |-> "GET", post |-> getCurrentPost(c.state)]) >>

\* the callback taking the status of the fetched resource only
REFRESH_POST_then_statusOnly(c, r, newPost) ==
    << updatePost(pick(newPost, {"status"})) >>

REFRESH_POST_then(c, r, newPost) == << resetPost(newPost) >>

\* the promise of REFRESH_POST is given no rejection callback
REFRESH_POST_catch(c, r, error) == <<>>

\* the handler asking for the block before the provisional one to be selected
removeProvisionalBlock_selectingPrevious(c, action) ==
    LET provisionalBlockClientId == getProvisionalBlockClientId(c.state)
    IN  IF provisionalBlockClientId # 0 /\ ~isBlockSelected(c.state, provisionalBlockClientId)
        THEN << removeBlock(provisionalBlockClientId, TRUE) >>
        ELSE <<>>

removeProvisionalBlock(c, action) ==
    LET provisionalBlockClientId == getProvisionalBlockClientId(c.state)
    IN  IF provisionalBlockClientId # 0 /\ ~isBlockSelected(c.state, provisionalBlockClientId)
        THEN << removeBlock(provisionalBlockClientId, FALSE) >>
        ELSE <<>>

\* a client id as a JavaScript value: a string, or null (-1)
clientIdValue(id) ==
    IF id = -1 THEN [typeof |-> "object", value |-> NoBlock]
    ELSE [typeof |-> "string", value |-> [clientId |-> id]]

\* a block, or null (NoBlock), as a JavaScript value
blockValue(b) == [typeof |-> "object", value |-> b]

\* x === y: values of different types are never strictly equal
strictEquals(x, y) == x.typeof = y.typeof /\ x.value = y.value

\* previousState is the tree before the removal; the handle to select is a
\* client id, the selected block a block
REMOVE_BLOCKS(c, action) ==
    LET firstRemovedBlockClientId == action.clientIds[1]
        currentSelectedBlock == getSelectedBlock(c.state)
        previousState == c.state.past
        rootClientId == getBlockRootClientId(previousState, firstRemovedBlockClientId)
        previous == getPreviousBlockClientId(previousState, firstRemovedBlockClientId)
        blockClientIdToSelect == IF previous > 0 THEN previous ELSE rootClientId
    IN  IF ~action.selectPrevious THEN <<>>
        ELSE IF ~strictEquals(clientIdValue(blockClientIdToSelect),
                              blockValue(currentSelectedBlock))
        THEN << selectBlock(IF blockClientIdToSelect = -1 THEN 0 ELSE blockClientIdToSelect) >>
        ELSE <<>>

\* the handler selecting the first block when the types can not match
MERGE_BLOCKS_merge_selectingOnAbort(c, action) ==
    LET blockA == getBlock(c.state, action.blocks[1])
        blockB == getBlock(c.state, action.blocks[2])
        blocksWithTheSameType ==
            IF blockA.name = blockB.name THEN <<blockB>>
            ELSE switchToBlockType(blockB, blockA.name, c.nextClientId)
        updatedAttributes == mergeAttributes(blockA.name, blockA.attributes,
                                             blocksWithTheSameType[1].attributes)
    IN  IF Len(blocksWithTheSameType) = 0 THEN << selectBlock(blockA.clientId) >>
        ELSE << uuid(Len(blocksWithTheSameType) - 1),
                selectBlock(blockA.clientId),
                replaceBlocks(<<blockA.clientId, blockB.clientId>>,
                    <<[blockA EXCEPT !.attributes = Spread(@, updatedAttributes)]>>
                    \o Tail(blocksWithTheSameType)) >>

\* the handler giving the merged block the result of the merge alone
MERGE_BLOCKS_merge_mergeResultOnly(c, action) ==
    LET blockA == getBlock(c.state, action.blocks[1])
        blockB == getBlock(c.state, action.blocks[2])
        blocksWithTheSameType ==
            IF blockA.name = blockB.name THEN <<blockB>>
            ELSE switchToBlockType(blockB, blockA.name, c.nextClientId)
        updatedAttributes == mergeAttributes(blockA.name, blockA.attributes,
                                             blocksWithTheSameType[1].attributes)
    IN  IF Len(blocksWithTheSameType) = 0 THEN <<>>
        ELSE << uuid(Len(blocksWithTheSameType) - 1),
                selectBlock(blockA.clientId),
                replaceBlocks(<<blockA.clientId, blockB.clientId>>,
                    <<[blockA EXCEPT !.attributes = updatedAttributes]>>
                    \o Tail(blocksWithTheSameType)) >>

\* MERGE_BLOCKS past the check of the first block's type
MERGE_BLOCKS_merge(c, action) ==
    LET blockA == getBlock(c.state, action.blocks[1])
        blockB == getBlock(c.state, action.blocks[2])
        blocksWithTheSameType ==
            IF blockA.name = blockB.name THEN <<blockB>>
            ELSE switchToBlockType(blockB, blockA.name, c.nextClientId)
        updatedAttributes == mergeAttributes(blockA.name, blockA.attributes,
                                             blocksWithTheSameType[1].attributes)
    IN  IF Len(blocksWithTheSameType) = 0 THEN <<>>
        ELSE << uuid(Len(blocksWithTheSameType) - 1),
                selectBlock(blockA.clientId),
                replaceBlocks(<<blockA.clientId, blockB.clientId>>,
                    <<[blockA EXCEPT !.attributes = Spread(@, updatedAttributes)]>>
                    \o Tail(blocksWithTheSameType)) >>

\* the handler giving up without selecting the first block
MERGE_BLOCKS_withoutSelect(c, action) ==
    IF ~hasMerge(getBlock(c.state, action.blocks[1]).name) THEN <<>>
    ELSE MERGE_BLOCKS_merge(c, action)

MERGE_BLOCKS(c, action) ==
    IF ~hasMerge(getBlock(c.state, action.blocks[1]).name)
    THEN << selectBlock(getBlock(c.state, action.blocks[1]).clientId) >>
    ELSE MERGE_BLOCKS_merge(c, action)

\* parse( reusableBlock.content )[ 0 ]: a block under a new client id
parseReusable(resource, fresh) ==
    [clientId |-> fresh, name |-> "core/paragraph",
     attributes |-> [content |-> resource.content], innerBlocks |-> <<>>]

\* action.basePath: whether wp.api.getPostTypeRoute( 'wp_block' ) is defined
FETCH_REUSABLE_BLOCKS(c, action) ==
    IF ~action.basePath THEN <<>>
    ELSE << apiFetch([kind |-> "fetchReusable", method |-> "GET", id |-> action.id]) >>

\* reusableBlockOrBlocks is given as a list (castArray)
FETCH_REUSABLE_BLOCKS_then(c, r, reusableBlockOrBlocks) ==
    LET n == Len(reusableBlockOrBlocks)
        results == [i \in 1..n |->
                      [reusableBlock |-> reusableBlockOrBlocks[i],
                       parsedBlock |-> parseReusable(reusableBlockOrBlocks[i],
                                                     c.nextClientId + i - 1)]]
    IN  << uuid(n),
           receiveReusableBlocks(results),
           [type |-> "FETCH_REUSABLE_BLOCKS_SUCCESS", id |-> r.id] >>

FETCH_REUSABLE_BLOCKS_catch(c, r, error) ==
    << [type |-> "FETCH_REUSABLE_BLOCKS_FAILURE", id |-> r.id, error |-> error] >>

RECEIVE_REUSABLE_BLOCKS(c, action) ==
    << receiveBlocks([i \in 1..Len(action.results) |-> action.results[i].parsedBlock]) >>

\* reading the entry or its block throws when either is missing
SAVE_REUSABLE_BLOCK(c, action) ==
    LET reusableBlock == getReusableBlock(c.state, action.id)
        block == getBlock(c.state, reusableBlock.clientId)
        isTemporary == reusableBlock.isTemporary
    IN  IF ~action.basePath THEN <<>>
        ELSE IF reusableBlock = NoReusableBlock THEN <<>>
        ELSE IF isNull(block) THEN <<>>
        ELSE << apiFetch([kind |-> "saveReusable",
                          method |-> IF isTemporary THEN "POST" ELSE "PUT",
                          id |-> action.id, isTemporary |-> isTemporary]) >>

SAVE_REUSABLE_BLOCK_then(c, r, updatedReusableBlock) ==
    LET message == IF r.isTemporary THEN "Block created." ELSE "Block updated."
    IN  << [type |-> "SAVE_REUSABLE_BLOCK_SUCCESS",
            updatedId |-> updatedReusableBlock.id, id |-> r.id],
           createSuccessNotice(message, FALSE, REUSABLE_BLOCK_NOTICE_ID) >>

SAVE_REUSABLE_BLOCK_catch(c, r, error) ==
    << [type |-> "SAVE_REUSABLE_BLOCK_FAILURE", id |-> r.id],
       createErrorNotice(error.message, REUSABLE_BLOCK_NOTICE_ID) >>

\* allBlocks.filter( ... ).map( ( block ) => block.clientId )
RECURSIVE associatedBlockClientIds(_, _)
associatedBlockClientIds(allBlocks, id) ==
    IF allBlocks = <<>> THEN <<>>
    ELSE (IF isReusableBlock(Head(allBlocks)) /\ Head(allBlocks).attributes.ref = id
          THEN <<Head(allBlocks).clientId>> ELSE <<>>)
         \o associatedBlockClientIds(Tail(allBlocks), id)

\* DELETE_REUSABLE_BLOCK past its guards: the entry and the blocks that use
\* it are removed optimistically and the request is issued
DELETE_REUSABLE_BLOCK_request(c, action, reusableBlock) ==
    LET allBlocks == getBlocks(c.state)
        transactionId == ToString(c.uid + 1)
    IN  << uniqueId,
           [type |-> "REMOVE_REUSABLE_BLOCK", id |-> action.id,
            optimist |-> [type |-> BEGIN, id |-> transactionId]],
           removeBlocks(associatedBlockClientIds(allBlocks, action.id)
                        \o <<reusableBlock.clientId>>, TRUE),
           apiFetch([kind |-> "deleteReusable", method |-> "DELETE",
                     id |-> action.id, transactionId |-> transactionId]) >>

\* the handler deleting a temporary entry as well
DELETE_REUSABLE_BLOCK_temporaryToo(c, action) ==
    IF ~action.basePath THEN <<>>
    ELSE IF getReusableBlock(c.state, action.id) = NoReusableBlock THEN <<>>
    ELSE DELETE_REUSABLE_BLOCK_request(c, action, getReusableBlock(c.state, action.id))

DELETE_REUSABLE_BLOCK(c, action) ==
    IF ~action.basePath THEN <<>>
    ELSE IF getReusableBlock(c.state, action.id) = NoReusableBlock THEN <<>>
    ELSE IF getReusableBlock(c.state, action.id).isTemporary THEN <<>>
    ELSE DELETE_REUSABLE_BLOCK_request(c, action, getReusableBlock(c.state, action.id))

DELETE_REUSABLE_BLOCK_then(c, r) ==
    << [type |-> "DELETE_REUSABLE_BLOCK_SUCCESS", id |-> r.id,
        optimist |-> [type |-> COMMIT, id |-> r.transactionId]],
       createSuccessNotice("Block deleted.", FALSE, REUSABLE_BLOCK_NOTICE_ID) >>

DELETE_REUSABLE_BLOCK_catch(c, r, error) ==
    << [type |-> "DELETE_REUSABLE_BLOCK_FAILURE", id |-> r.id,
        optimist |-> [type |-> REVERT, id |-> r.transactionId]],
       createErrorNotice(error.message, REUSABLE_BLOCK_NOTICE_ID) >>

\* createBlock( name, attributes ): a block under a new client id
createBlock(name, attributes, fresh) ==
    [clientId |-> fresh, name |-> name, attributes |-> attributes, innerBlocks |-> <<>>]

\* the handler copying the type of the referenced block only
CONVERT_BLOCK_TO_STATIC_withoutAttributes(c, action) ==
    LET oldBlock == getBlock(c.state, action.clientId)
        reusableBlock == getReusableBlock(c.state, oldBlock.attributes.ref)
        referencedBlock == getBlock(c.state, reusableBlock.clientId)
        newBlock == createBlock(referencedBlock.name, EmptyObject, c.nextClientId)
    IN  IF isNull(oldBlock) \/ "ref" \notin DOMAIN oldBlock.attributes THEN <<>>
        ELSE IF reusableBlock = NoReusableBlock THEN <<>>
        ELSE IF isNull(referencedBlock) THEN <<>>
        ELSE << uuid(1), replaceBlock(oldBlock.clientId, newBlock) >>

\* reading a missing block or entry throws
CONVERT_BLOCK_TO_STATIC(c, action) ==
    LET oldBlock == getBlock(c.state, action.clientId)
        reusableBlock == getReusableBlock(c.state, oldBlock.attributes.ref)
        referencedBlock == getBlock(c.state, reusableBlock.clientId)
        newBlock == createBlock(referencedBlock.name, referencedBlock.attributes,
                                c.nextClientId)
    IN  IF isNull(oldBlock) \/ "ref" \notin DOMAIN oldBlock.attributes THEN <<>>
        ELSE IF reusableBlock = NoReusableBlock THEN <<>>
        ELSE IF isNull(referencedBlock) THEN <<>>
        ELSE << uuid(1), replaceBlock(oldBlock.clientId, newBlock) >>

CONVERT_BLOCK_TO_REUSABLE(c, action) ==
    LET parsedBlock == getBlock(c.state, action.clientId)
        reusableBlock == [id |-> "reusable" \o ToString(c.uid + 1),
                          clientId |-> parsedBlock.clientId,
                          title |-> "Untitled reusable block"]
    IN  IF isNull(parsedBlock) THEN <<>>
        ELSE << uniqueId,
                receiveReusableBlocks(<<[reusableBlock |-> reusableBlock,
                                         parsedBlock |-> parsedBlock]>>),
                Spread(saveReusableBlock(reusableBlock.id), [basePath |-> action.basePath]),
                uuid(1),
                replaceBlock(parsedBlock.clientId,
                    createBlock("core/block",
                        Spread([ref |-> reusableBlock.id],
                               pick(parsedBlock.attributes, {"layout"})),
                        c.nextClientId)),
                receiveBlocks(<<parsedBlock>>) >>

(* Templates and parsing (@wordpress/blocks) *)

\* the attributes a new block of any type starts with
defaultAttributes == [content |-> ""]

\* parse( content ): raw content is the list of the names of its blocks,
\* each parsed into a block under a new client id
parse(raw, fresh) ==
    [i \in 1..Len(raw) |-> [clientId |-> fresh + i - 1, name |-> raw[i],
                            attributes |-> defaultAttributes, innerBlocks |-> <<>>]]

\* doBlocksMatchTemplate( blocks, template )
doBlocksMatchTemplate(blocks, template) ==
    /\ Len(blocks) = Len(template)
    /\ \A i \in 1..Len(template) : blocks[i].name = template[i]

\* the block at index i is kept by the template
keptByTemplate(blocks, template, i) == i <= Len(blocks) /\ blocks[i].name = template[i]

\* the blocks synchronizeBlocksWithTemplate creates
createdByTemplate(blocks, template) ==
    IF template = NoTemplate THEN 0
    ELSE Cardinality({i \in 1..Len(template) : ~keptByTemplate(blocks, template, i)})

RECURSIVE synchronizedFrom(_, _, _, _)
synchronizedFrom(blocks, template, i, fresh) ==
    IF i > Len(template) THEN <<>>
    ELSE IF keptByTemplate(blocks, template, i)
    THEN <<blocks[i]>> \o synchronizedFrom(blocks, template, i + 1, fresh)
    ELSE <<[clientId |-> fresh, name |-> template[i],
            attributes |-> defaultAttributes, innerBlocks |-> <<>>]>>
         \o synchronizedFrom(blocks, template, i + 1, fresh + 1)

\* synchronizeBlocksWithTemplate( blocks, template ): one block per entry of
\* the template, the block at that index when its name is the entry's, a
\* new block otherwise; the blocks themselves when there is no template
synchronizeBlocksWithTemplate(blocks, template, fresh) ==
    IF template = NoTemplate THEN blocks ELSE synchronizedFrom(blocks, template, 1, fresh)

\* getDefaultBlockForPostFormat( format ): "" when the format has none
getDefaultBlockForPostFormat(format) ==
    CASE format = "image" -> "core/image"
      [] format = "quote" -> "core/quote"
      [] OTHER -> ""

\* post.content.raw is the list of the names of the blocks of the content,
\* action.autosave whether the post has a more recent autosave
SETUP_EDITOR(c, action) ==
    LET post == action.post
        template == getTemplate(c.state)
        templateLock == getTemplateLock(c.state)
        blocks ==
            IF post.content # <<>> THEN parse(post.content, c.nextClientId)
            ELSE IF template # NoTemplate
            THEN synchronizeBlocksWithTemplate(<<>>, template, c.nextClientId)
            ELSE IF getDefaultBlockForPostFormat(post.format) # ""
            THEN << [clientId |-> c.nextClientId,
                     name |-> getDefaultBlockForPostFormat(post.format),
                     attributes |-> defaultAttributes, innerBlocks |-> <<>>] >>
            ELSE <<>>
        isValidTemplate ==
            IF post.content # <<>>
            THEN \/ template = NoTemplate
                 \/ templateLock # "all"
                 \/ doBlocksMatchTemplate(blocks, template)
            ELSE TRUE
        edits == IF post.status = "auto-draft" THEN [title |-> post.title]
                 ELSE [k \in {} |-> ""]
        noticeMessage ==
            "There is an autosave of this post that is more recent than the version below."
    IN  << uuid(Len(blocks)),
           setTemplateValidity(isValidTemplate),
           setupEditorState(post, blocks, edits) >>
        \o (IF action.autosave
            THEN << createWarningNotice(noticeMessage, TRUE, AUTOSAVE_POST_NOTICE_ID) >>
            ELSE <<>>)

SYNCHRONIZE_TEMPLATE(c, action) ==
    LET blocks == getBlocks(c.state)
        template == getTemplate(c.state)
        updatedBlockList == synchronizeBlocksWithTemplate(blocks, template, c.nextClientId)
    IN  << uuid(createdByTemplate(blocks, template)),
           resetBlocks(updatedBlockList),
           setTemplateValidity(TRUE) >>

\* the handler taking any tree for valid unless the template is locked
CHECK_TEMPLATE_VALIDITY_lockOnly(c, action) ==
    << setTemplateValidity(getTemplate(c.state) = NoTemplate
                           \/ getTemplateLock(c.state) # "all") >>

CHECK_TEMPLATE_VALIDITY(c, action) ==
    LET blocks == getBlocks(c.state)
        template == getTemplate(c.state)
        templateLock == getTemplateLock(c.state)
        isValid == \/ template = NoTemplate
                   \/ templateLock # "all"
                   \/ doBlocksMatchTemplate(blocks, template)
    IN  << setTemplateValidity(isValid) >>

\* action.edits.format is absent from edits that do not set the format
EDIT_POST(c, action) ==
    LET format == IF "format" \in DOMAIN action.edits THEN action.edits.format ELSE ""
        blockName == getDefaultBlockForPostFormat(format)
    IN  IF format = "" THEN <<>>
        ELSE IF blockName # "" /\ getBlockCount(c.state) = 0
        THEN << uuid(1),
                insertBlock([clientId |-> c.nextClientId, name |-> blockName,
                             attributes |-> defaultAttributes, innerBlocks |-> <<>>]) >>
        ELSE <<>>

\* the handler registered for each action type
Effects(c, a) ==
    CASE a.type = "REQUEST_POST_UPDATE" -> REQUEST_POST_UPDATE(c, a)
      [] a.type = "REQUEST_POST_UPDATE_SUCCESS" -> REQUEST_POST_UPDATE_SUCCESS(c, a)
      [] a.type = "REQUEST_POST_UPDATE_FAILURE" -> REQUEST_POST_UPDATE_FAILURE(c, a)
      [] a.type = "TRASH_POST" -> TRASH_POST(c, a)
      [] a.type = "TRASH_POST_FAILURE" -> TRASH_POST_FAILURE(c, a)
      [] a.type = "REFRESH_POST" -> REFRESH_POST(c, a)
      [] a.type = "MERGE_BLOCKS" -> MERGE_BLOCKS(c, a)
      [] a.type = "FETCH_REUSABLE_BLOCKS" -> FETCH_REUSABLE_BLOCKS(c, a)
      [] a.type = "RECEIVE_REUSABLE_BLOCKS" -> RECEIVE_REUSABLE_BLOCKS(c, a)
      [] a.type = "SAVE_REUSABLE_BLOCK" -> SAVE_REUSABLE_BLOCK(c, a)
      [] a.type = "DELETE_REUSABLE_BLOCK" -> DELETE_REUSABLE_BLOCK(c, a)
      [] a.type = "CONVERT_BLOCK_TO_STATIC" -> CONVERT_BLOCK_TO_STATIC(c, a)
      [] a.type = "CONVERT_BLOCK_TO_REUSABLE" -> CONVERT_BLOCK_TO_REUSABLE(c, a)
      [] a.type \in {"CLEAR_SELECTED_BLOCK", "SELECT_BLOCK", "MULTI_SELECT"} ->
            removeProvisionalBlock(c, a)
      [] a.type = "REMOVE_BLOCKS" -> REMOVE_BLOCKS(c, a)
      [] a.type = "SETUP_EDITOR" -> SETUP_EDITOR(c, a)
      [] a.type = "SYNCHRONIZE_TEMPLATE" -> SYNCHRONIZE_TEMPLATE(c, a)
      [] a.type = "CHECK_TEMPLATE_VALIDITY" -> CHECK_TEMPLATE_VALIDITY(c, a)
      [] a.type = "EDIT_POST" -> EDIT_POST(c, a)
      [] OTHER -> <<>>

-----------------------------------------------------------------------------
(* Dispatch: the reducer runs, then the handler registered for the action, *)
(* and what the handler dispatches is handled, to the end, before the      *)
(* dispatch returns.                                                        *)

\* the store's state before the last change of the tree (editor.past)
withPast(old, new) ==
    IF new.blocks # old.blocks \/ new.order # old.order
    THEN [new EXCEPT !.past = [blocks |-> old.blocks, order |-> old.order]]
    ELSE new

\* the reducers have run on action a
stored(c, r) == [c EXCEPT !.state = withPast(c.state, r.state), !.optimist = r.optimist]

Reduced(c, a) == stored(c, optimistReducer(c.optimist, c.state, a))

\* one step of a handler has been carried out
Performed(c, a) ==
    CASE a.type = "@@apiFetch" ->
            [c EXCEPT !.requests = @ \cup {Spread(a.request, [n |-> c.nreq + 1])},
                      !.nreq = @ + 1]
      [] a.type = "@@uniqueId" -> [c EXCEPT !.uid = @ + 1]
      [] a.type = "@@uuid" -> [c EXCEPT !.nextClientId = @ + a.count]
      [] OTHER -> [Reduced(c, a) EXCEPT !.out = Append(@, a)]

\* the steps in todo are carried out in order, each dispatched action
\* followed at once by the steps of its own handler
RECURSIVE Run(_, _)
Continue(c1, todo) == Run(c1, Effects(c1, Head(todo)) \o Tail(todo))

Run(c, todo) == IF todo = <<>> THEN c ELSE Continue(Performed(c, Head(todo)), todo)

-----------------------------------------------------------------------------
(* The state machine *)

InitialBlocks ==
    (1 :> [name |-> "core/image", attributes |-> [content |-> "i", layout |-> "wide"]]) @@
    (2 :> [name |-> "core/paragraph", attributes |-> [content |-> ""]]) @@
    (3 :> [name |-> "core/heading", attributes |-> [content |-> "h"]]) @@
    (4 :> [name |-> "core/block", attributes |-> [ref |-> "21"]]) @@
    (5 :> [name |-> "core/paragraph", attributes |-> [content |-> "r"]])

InitialOrder ==
    (0 :> <<1, 2, 3, 4>>) @@ (1 :> <<>>) @@ (2 :> <<>>) @@ (3 :> <<>>) @@
    (4 :> <<>>) @@ (5 :> <<>>)

InitialState(status, provisional) ==
    [currentPost |-> [id |-> 7, status |-> status, title |-> "t"],
     edits |-> EmptyObject,
     isDirty |-> FALSE,
     autosave |-> EmptyObject,
     notices |-> EmptyObject,
     blocks |-> InitialBlocks,
     order |-> InitialOrder,
     past |-> [blocks |-> InitialBlocks, order |-> InitialOrder],
     blockSelection |-> [start |-> 0, end |-> 0],
     provisionalBlockClientId |-> provisional,
     reusableBlocks |-> ("21" :> [clientId |-> 5, isTemporary |-> FALSE]),
     template |-> NoTemplate,
     templateLock |-> "",
     isValidTemplate |-> TRUE]

NoIntent == [type |-> "@@INIT"]

\* nothing was dispatched yet
InitialStore ==
    /\ optimist = <<>>
    /\ requests = {}
    /\ nreq = 0
    /\ nintents = 0
    /\ uid = 0
    /\ nextClientId = 6
    /\ intent = NoIntent
    /\ out = <<>>
    /\ txlog = EmptyObject
    /\ promoted = EmptyObject
    /\ converted = EmptyObject

Init ==
    /\ \E status \in {"auto-draft", "draft", "publish"} : \E provisional \in {0, 2} :
            state = InitialState(status, provisional)
    /\ InitialStore

Context ==
    [state |-> state, optimist |-> optimist, requests |-> requests, nreq |-> nreq,
     uid |-> uid, nextClientId |-> nextClientId, out |-> <<>>]

\* the number of actions of a step that carry the optimist type for the id
countTx(o, id, type) ==
    Cardinality({i \in 1..Len(o) : /\ "optimist" \in DOMAIN o[i]
                                   /\ o[i].optimist.id = id
                                   /\ o[i].optimist.type = type})

txIds(o) == {o[i].optimist.id : i \in {j \in 1..Len(o) : "optimist" \in DOMAIN o[j]}}

logged(log, id) == IF id \in DOMAIN log THEN log[id]
                   ELSE [begin |-> 0, commit |-> 0, revert |-> 0]

\* a SAVE_REUSABLE_BLOCK_SUCCESS that gives an entry a new id promotes it
isPromotion(a) == a.type = "SAVE_REUSABLE_BLOCK_SUCCESS" /\ a.updatedId # a.id

promotions(o, id) == Cardinality({i \in 1..Len(o) : isPromotion(o[i]) /\ o[i].id = id})

promotedIds(o) == {o[i].id : i \in {j \in 1..Len(o) : isPromotion(o[j])}}

\* the step ends in context c
\* the client ids of the reference blocks the actions of o put in the tree
referencesMade(o) ==
    {o[i].blocks[1].clientId : i \in {j \in 1..Len(o) :
        o[j].type = "REPLACE_BLOCKS" /\ o[j].blocks[1].name = "core/block"}}

Commit(c, trigger) ==
    /\ c.nreq <= MaxRequests
    /\ c.uid <= MaxUid
    /\ c.nextClientId <= MaxClientId + 1
    /\ state' = c.state
    /\ optimist' = c.optimist
    /\ requests' = c.requests
    /\ nreq' = c.nreq
    /\ uid' = c.uid
    /\ nextClientId' = c.nextClientId
    /\ intent' = trigger
    /\ out' = c.out
    /\ txlog' = Spread(txlog, [id \in txIds(c.out) |->
                    [begin |-> logged(txlog, id).begin + countTx(c.out, id, BEGIN),
                     commit |-> logged(txlog, id).commit + countTx(c.out, id, COMMIT),
                     revert |-> logged(txlog, id).revert + countTx(c.out, id, REVERT)]])
    /\ promoted' = Spread(promoted, [id \in promotedIds(c.out) |->
                    (IF id \in DOMAIN promoted THEN promoted[id] ELSE 0)
                    + promotions(c.out, id)])
    /\ converted' = IF trigger.type = "CONVERT_BLOCK_TO_REUSABLE"
                     THEN Spread(converted, [b \in referencesMade(c.out) |->
                                                state.blocks[trigger.clientId]])
                     ELSE converted

\* another intent may arrive
ready == nintents < MaxIntents

\* an intent reaches the store: its reducer runs, then its handler
Handle(a) ==
    /\ nintents' = nintents + 1
    /\ Commit(Continue(Reduced(Context, a), <<a>>), a)

\* a request settles and its callback runs
Settle(r, todo, outcome) ==
    /\ nintents' = nintents
    /\ Commit(Run([Context EXCEPT !.requests = @ \ {r}], todo),
              Spread(outcome, [request |-> r]))

\* the statuses a resource answered by the server can carry
ServerStatuses == {"draft", "publish", "private", "future"}
Posts == [id : PostIds, status : ServerStatuses, title : Titles]

\* an error for each way the handlers tell errors apart
SaveErrors == {e \in Errors : e.message # "" /\ e.code # "unknown_error"}

\* the resource the server answers a save with: the title is the one sent
SaveResponses(r) ==
    {p \in Posts : p.title = (IF "title" \in DOMAIN r.data THEN r.data.title
                              ELSE r.post.title)}

\* the canonical resource the server answers a refresh with
RefreshResponses(r) == {p \in Posts : p.id = r.post.id /\ p.status \in {"draft", "publish"}}

\* the verdict of isEditedPostAutosaveable / isEditedPostSaveable is an input
RequestPostUpdate ==
    \E autosave \in BOOLEAN, isSaveable \in BOOLEAN :
        ready /\ Handle([type |-> "REQUEST_POST_UPDATE", options |-> [autosave |-> autosave],
                isSaveable |-> isSaveable])

RequestPostUpdateResolved ==
    \E r \in requests : r.kind = "save" /\ \E newPost \in SaveResponses(r) :
        Settle(r, REQUEST_POST_UPDATE_then(Context, r, newPost),
               [type |-> "@@RESOLVED", response |-> newPost])

RequestPostUpdateRejected ==
    \E r \in requests : r.kind = "save" /\ \E error \in SaveErrors :
        Settle(r, REQUEST_POST_UPDATE_catch(Context, r, error),
               [type |-> "@@REJECTED", error |-> error])

EditPost ==
    \E edits \in {[status |-> "publish"], [status |-> "future"], [title |-> "x"]} :
        ready /\ Handle([type |-> "EDIT_POST", edits |-> edits])

TrashPost == ready /\ Handle([type |-> "TRASH_POST", postId |-> state.currentPost.id])

TrashPostResolved ==
    \E r \in requests : r.kind = "trash" /\
        Settle(r, TRASH_POST_then(Context, r), [type |-> "@@RESOLVED"])

TrashPostRejected ==
    \E r \in requests : r.kind = "trash" /\ \E error \in Errors :
        Settle(r, TRASH_POST_catch(Context, r, error),
               [type |-> "@@REJECTED", error |-> error])

RefreshPost == ready /\ Handle([type |-> "REFRESH_POST"])

RefreshPostResolved ==
    \E r \in requests : r.kind = "refresh" /\ \E newPost \in RefreshResponses(r) :
        Settle(r, REFRESH_POST_then(Context, r, newPost),
               [type |-> "@@RESOLVED", response |-> newPost])

RefreshPostRejected ==
    \E r \in requests : r.kind = "refresh" /\ \E error \in SaveErrors :
        Settle(r, REFRESH_POST_catch(Context, r, error),
               [type |-> "@@REJECTED", error |-> error])

NextPost ==
    \/ RequestPostUpdate
    \/ RequestPostUpdateResolved
    \/ RequestPostUpdateRejected
    \/ EditPost
    \/ TrashPost
    \/ TrashPostResolved
    \/ TrashPostRejected
    \/ RefreshPost
    \/ RefreshPostResolved
    \/ RefreshPostRejected

SpecPost == Init /\ [][NextPost]_vars

-----------------------------------------------------------------------------
(* Intents on the tree and the selection *)

topLevel == state.order[0]

MergeBlocks ==
    \E i \in 1..(Len(topLevel) - 1) :
        ready /\ Handle([type |-> "MERGE_BLOCKS", blocks |-> <<topLevel[i], topLevel[i + 1]>>])

SelectBlock == \E i \in 1..Len(topLevel) : ready /\ Handle(selectBlock(topLevel[i]))

ClearSelectedBlock == ready /\ Handle([type |-> "CLEAR_SELECTED_BLOCK"])

MultiSelect ==
    \E i \in 1..Len(topLevel), j \in 1..Len(topLevel) :
        i < j /\ ready /\ Handle([type |-> "MULTI_SELECT", start |-> topLevel[i], end |-> topLevel[j]])

RemoveBlocks ==
    \E i \in 1..Len(topLevel), selectPrevious \in BOOLEAN :
        ready /\ Handle(removeBlocks(<<topLevel[i]>>, selectPrevious))

NextBlocks ==
    \/ MergeBlocks
    \/ SelectBlock
    \/ ClearSelectedBlock
    \/ MultiSelect
    \/ RemoveBlocks

SpecBlocks == Init /\ [][NextBlocks]_vars

-----------------------------------------------------------------------------
(* Intents on the reusable blocks *)

\* the ids an intent can name: the entries of the store and the temporary
\* ids that were promoted
knownReusableIds == (DOMAIN state.reusableBlocks) \cup (DOMAIN promoted)

\* the resources of the wp_block collection the server answers a fetch with
ServerReusableBlocks == <<[id |-> "21", content |-> "r"], [id |-> "22", content |-> "s"]>>

\* the id the server gives the resource a create request makes
createdId(r) == ToString(22 + r.n)

FetchReusableBlocks ==
    \E id \in {"", "21"}, basePath \in BOOLEAN :
        ready /\ Handle([type |-> "FETCH_REUSABLE_BLOCKS", id |-> id, basePath |-> basePath])

FetchReusableBlocksResolved ==
    \E r \in requests : r.kind = "fetchReusable" /\
        \E k \in (IF r.id = "" THEN 0..Len(ServerReusableBlocks) ELSE {1}) :
            Settle(r, FETCH_REUSABLE_BLOCKS_then(Context, r, SubSeq(ServerReusableBlocks, 1, k)),
                   [type |-> "@@RESOLVED", response |-> SubSeq(ServerReusableBlocks, 1, k)])

FetchReusableBlocksRejected ==
    \E r \in requests : r.kind = "fetchReusable" /\ \E error \in SaveErrors :
        Settle(r, FETCH_REUSABLE_BLOCKS_catch(Context, r, error),
               [type |-> "@@REJECTED", error |-> error])

SaveReusableBlock ==
    \E id \in knownReusableIds, basePath \in BOOLEAN :
        ready /\ Handle(Spread(saveReusableBlock(id), [basePath |-> basePath]))

SaveReusableBlockResolved ==
    \E r \in requests : r.kind = "saveReusable" /\
        LET updatedReusableBlock == [id |-> IF r.isTemporary THEN createdId(r) ELSE r.id]
        IN  Settle(r, SAVE_REUSABLE_BLOCK_then(Context, r, updatedReusableBlock),
                   [type |-> "@@RESOLVED", response |-> updatedReusableBlock])

SaveReusableBlockRejected ==
    \E r \in requests : r.kind = "saveReusable" /\ \E error \in SaveErrors :
        Settle(r, SAVE_REUSABLE_BLOCK_catch(Context, r, error),
               [type |-> "@@REJECTED", error |-> error])

DeleteReusableBlock ==
    \E id \in knownReusableIds \cup {"404"}, basePath \in BOOLEAN :
        ready /\ Handle([type |-> "DELETE_REUSABLE_BLOCK", id |-> id, basePath |-> basePath])

DeleteReusableBlockResolved ==
    \E r \in requests : r.kind = "deleteReusable" /\
        Settle(r, DELETE_REUSABLE_BLOCK_then(Context, r), [type |-> "@@RESOLVED"])

DeleteReusableBlockRejected ==
    \E r \in requests : r.kind = "deleteReusable" /\ \E error \in SaveErrors :
        Settle(r, DELETE_REUSABLE_BLOCK_catch(Context, r, error),
               [type |-> "@@REJECTED", error |-> error])

ConvertBlockToStatic ==
    \E i \in 1..Len(topLevel) :
        /\ state.blocks[topLevel[i]].name = "core/block"
        /\ ready /\ Handle([type |-> "CONVERT_BLOCK_TO_STATIC", clientId |-> topLevel[i]])

ConvertBlockToReusable ==
    \E i \in 1..Len(topLevel), basePath \in BOOLEAN :
        /\ state.blocks[topLevel[i]].name # "core/block"
        /\ ready /\ Handle([type |-> "CONVERT_BLOCK_TO_REUSABLE", clientId |-> topLevel[i],
                   basePath |-> basePath])

NextReusable ==
    \/ FetchReusableBlocks
    \/ FetchReusableBlocksResolved
    \/ FetchReusableBlocksRejected
    \/ SaveReusableBlock
    \/ SaveReusableBlockResolved
    \/ SaveReusableBlockRejected
    \/ DeleteReusableBlock
    \/ DeleteReusableBlockResolved
    \/ DeleteReusableBlockRejected
    \/ ConvertBlockToStatic
    \/ ConvertBlockToReusable

SpecReusable == Init /\ [][NextReusable]_vars

-----------------------------------------------------------------------------
(* Setup of the editor and the template of the settings *)

\* the templates of the settings: none, one block, two blocks
Templates == {NoTemplate, <<"core/paragraph">>, <<"core/image", "core/paragraph">>}
TemplateLocks == {"", "all", "insert"}
\* the raw content of the post handed to the editor
RawContents == {<<>>, <<"core/paragraph">>, <<"core/paragraph", "core/image">>,
                <<"core/image", "core/paragraph">>}

\* the store before SETUP_EDITOR: the tree is empty and no reusable block
\* is known; the template and its lock are those of the settings
InitTemplate ==
    /\ \E template \in Templates, templateLock \in TemplateLocks :
            state = [InitialState("auto-draft", 0) EXCEPT
                        !.blocks = pick(@, {}),
                        !.order = (0 :> <<>>),
                        !.past = [blocks |-> pick(InitialBlocks, {}), order |-> (0 :> <<>>)],
                        !.reusableBlocks = pick(@, {}),
                        !.template = template,
                        !.templateLock = templateLock]
    /\ InitialStore

SetupEditor ==
    \E content \in RawContents, status \in {"auto-draft", "draft"},
       format \in {"", "image"}, autosave \in BOOLEAN :
        ready /\ Handle([type |-> "SETUP_EDITOR",
                         post |-> [id |-> 7, status |-> status, title |-> "t",
                                   content |-> content, format |-> format],
                         autosave |-> autosave])

SynchronizeTemplate == ready /\ Handle([type |-> "SYNCHRONIZE_TEMPLATE"])

CheckTemplateValidity == ready /\ Handle([type |-> "CHECK_TEMPLATE_VALIDITY"])

EditPostFormat ==
    \E format \in {"image", "aside"} :
        ready /\ Handle([type |-> "EDIT_POST", edits |-> [format |-> format]])

RemoveBlock ==
    \E i \in 1..Len(topLevel) : ready /\ Handle(removeBlocks(<<topLevel[i]>>, FALSE))

NextTemplate ==
    \/ SetupEditor
    \/ SynchronizeTemplate
    \/ CheckTemplateValidity
    \/ EditPostFormat
    \/ RemoveBlock

SpecTemplate == InitTemplate /\ [][NextTemplate]_vars

-----------------------------------------------------------------------------
(* The reusable blocks of a tree with inner blocks *)

\* a columns block holding a paragraph and a reference to entry "21", a
\* second reference at the top level, and the parsed block of the entry
NestedBlocks ==
    (1 :> [name |-> "core/columns", attributes |-> [content |-> ""]]) @@
    (2 :> [name |-> "core/paragraph", attributes |-> [content |-> "p"]]) @@
    (3 :> [name |-> "core/block", attributes |-> [ref |-> "21"]]) @@
    (4 :> [name |-> "core/block", attributes |-> [ref |-> "21"]]) @@
    (5 :> [name |-> "core/paragraph", attributes |-> [content |-> "r"]])

NestedOrder ==
    (0 :> <<1, 4>>) @@ (1 :> <<2, 3>>) @@ (2 :> <<>>) @@ (3 :> <<>>) @@
    (4 :> <<>>) @@ (5 :> <<>>)

InitNested ==
    /\ \E status \in {"draft", "publish"} :
            state = [InitialState(status, 0) EXCEPT
                        !.blocks = NestedBlocks,
                        !.order = NestedOrder,
                        !.past = [blocks |-> NestedBlocks, order |-> NestedOrder]]
    /\ InitialStore

SpecNested == InitNested /\ [][NextReusable]_vars

-----------------------------------------------------------------------------
(* Merges on a tree with a list, whose transform to paragraphs yields two   *)
(* blocks, and with a first block that has inner blocks and an attribute    *)
(* its type's merge does not return                                         *)

\* a paragraph holding block 5, an aligned paragraph, a list, a heading
MergeableBlocks ==
    (1 :> [name |-> "core/paragraph", attributes |-> [content |-> "a", align |-> "center"]]) @@
    (2 :> [name |-> "core/list", attributes |-> [content |-> "l"]]) @@
    (3 :> [name |-> "core/paragraph", attributes |-> [content |-> "c"]]) @@
    (4 :> [name |-> "core/heading", attributes |-> [content |-> "h"]]) @@
    (5 :> [name |-> "core/paragraph", attributes |-> [content |-> "n"]])

MergeableOrder ==
    (0 :> <<3, 1, 2, 4>>) @@ (1 :> <<>>) @@ (2 :> <<>>) @@ (3 :> <<5>>) @@
    (4 :> <<>>) @@ (5 :> <<>>)

InitMerge ==
    /\ \E provisional \in {0, 1} :
            state = [InitialState("draft", provisional) EXCEPT
                        !.blocks = MergeableBlocks,
                        !.order = MergeableOrder,
                        !.past = [blocks |-> MergeableBlocks, order |-> MergeableOrder],
                        !.reusableBlocks = EmptyObject]
    /\ InitialStore

SpecMerge == InitMerge /\ [][NextBlocks]_vars

Next == NextPost \/ NextBlocks \/ NextReusable \/ NextTemplate

Spec == Init /\ [][Next]_vars

-----------------------------------------------------------------------------
(* A dispatch that throws.  The callbacks are chained as                    *)
(* request.then( success ).catch( failure ): what success throws reaches    *)
(* failure.  Here the k-th dispatch of the success callback throws once the *)
(* reducers have run (a follow-up handler or a subscriber fails): the rest  *)
(* of the callback is skipped and the failure callback runs with the error. *)

\* what a thrown Error looks like to a failure callback: no code
ThrownError == [code |-> "", message |-> "thrown"]

\* the steps are carried out, their own handlers not run
RECURSIVE PerformedAll(_, _)
PerformedAll(c, todo) ==
    IF todo = <<>> THEN c ELSE PerformedAll(Performed(c, Head(todo)), Tail(todo))

SettleThrowing(r, done, failure, outcome) ==
    /\ nintents' = nintents
    /\ Commit(Run(PerformedAll([Context EXCEPT !.requests = @ \ {r}], done), failure),
              Spread(outcome, [request |-> r]))

RequestPostUpdateResolvedThrowing ==
    \E r \in requests : r.kind = "save" /\ \E newPost \in SaveResponses(r) :
        \E k \in 1..Len(REQUEST_POST_UPDATE_then(Context, r, newPost)) :
            SettleThrowing(r, SubSeq(REQUEST_POST_UPDATE_then(Context, r, newPost), 1, k),
                           REQUEST_POST_UPDATE_catch(Context, r, ThrownError),
                           [type |-> "@@RESOLVED", response |-> newPost, thrownAt |-> k])

DeleteReusableBlockResolvedThrowing ==
    \E r \in requests : r.kind = "deleteReusable" /\
        \E k \in 1..Len(DELETE_REUSABLE_BLOCK_then(Context, r)) :
            SettleThrowing(r, SubSeq(DELETE_REUSABLE_BLOCK_then(Context, r), 1, k),
                           DELETE_REUSABLE_BLOCK_catch(Context, r, ThrownError),
                           [type |-> "@@RESOLVED", thrownAt |-> k])

NextThrowing ==
    \/ RequestPostUpdate
    \/ RequestPostUpdateResolved
    \/ RequestPostUpdateRejected
    \/ RequestPostUpdateResolvedThrowing
    \/ EditPost
    \/ DeleteReusableBlock
    \/ DeleteReusableBlockResolved
    \/ DeleteReusableBlockRejected
    \/ DeleteReusableBlockResolvedThrowing

SpecThrowing == Init /\ [][NextThrowing]_vars

-----------------------------------------------------------------------------
(* Properties *)

types(o) == {o[i].type : i \in 1..Len(o)}

noticesOf(o, status) ==
    {o[i] : i \in {j \in 1..Len(o) : o[j].type = "CREATE_NOTICE" /\ o[j].notice.status = status}}

\* the actions of a step that resolve the transaction id as type
resolutions(o, id, type) ==
    {i \in 1..Len(o) : /\ "optimist" \in DOMAIN o[i]
                       /\ o[i].optimist.id = id
                       /\ o[i].optimist.type = type}

settled(kind) == intent.type \in {"@@RESOLVED", "@@REJECTED"} /\ intent.request.kind = kind

\* the last step belongs to an autosave that passed the gate: its intent or
\* the completion of its request
isAutosaveStep ==
    \/ intent.type = "REQUEST_POST_UPDATE" /\ intent.options.autosave /\ intent.isSaveable
    \/ settled("save") /\ intent.request.isAutosave

\* the failures dispatched in a step that are not the "no changes" one
reportedFailures(o) ==
    {i \in 1..Len(o) : /\ o[i].type = "REQUEST_POST_UPDATE_FAILURE"
                       /\ o[i].error.code # "rest_autosave_no_changes"}

\* C1 as stated: no step of an autosave attempt, whatever the outcome of its
\* request, dispatches a notice, success or failure.
C1_AutosaveNeverNotifies == isAutosaveStep => "CREATE_NOTICE" \notin types(out)

\* C1 amended: an autosave attempt never dispatches a success notice; it
\* dispatches a failure notice, "Updating failed", exactly when its failure
\* path runs with an error other than the "no changes" one; everything else
\* it dispatches is the transaction and the resets of state.
C1_AutosaveNotifiesOnlyFailure ==
    isAutosaveStep =>
        /\ noticesOf(out, "success") = {}
        /\ noticesOf(out, "warning") = {}
        /\ noticesOf(out, "error") \subseteq {createErrorNotice("Updating failed", SAVE_POST_NOTICE_ID)}
        /\ (noticesOf(out, "error") # {}) <=> (reportedFailures(out) # {})
        /\ types(out) \subseteq {"REQUEST_POST_UPDATE_START", "UPDATE_POST", "RESET_AUTOSAVE",
                                 "REQUEST_POST_UPDATE_SUCCESS", "REQUEST_POST_UPDATE_FAILURE",
                                 "DIRTY_ARTIFICIALLY", "CREATE_NOTICE"}

\* an autosave whose request was rejected with an error that is reported
C1_AutosaveFailureNotified ==
    /\ settled("save") /\ intent.request.isAutosave
    /\ intent.type = "@@REJECTED" /\ intent.error.code = "forbidden"
    /\ noticesOf(out, "error") # {}

\* C2: for every transaction id a COMMIT or REVERT follows a BEGIN of the id,
\* and a BEGIN is resolved by one of COMMIT or REVERT, never both and never
\* twice, also when a handler run from the success callback throws.
C2_ResolvedOnce ==
    \A id \in DOMAIN txlog : txlog[id].commit + txlog[id].revert <= txlog[id].begin

\* C3: when the request of a save or autosave succeeds, the transaction is
\* resolved once, as REVERT when the id of the resource that came back is
\* not the id of the post captured with the request and as COMMIT when it
\* is; no failure is dispatched and no error notice, and for an autosave no
\* notice at all.
C3_RevertIffRevision ==
    (settled("save") /\ intent.type = "@@RESOLVED") =>
        LET isRevision == intent.response.id # intent.request.post.id
        IN  /\ Cardinality(resolutions(out, POST_UPDATE_TRANSACTION_ID, REVERT))
                 = (IF isRevision THEN 1 ELSE 0)
            /\ Cardinality(resolutions(out, POST_UPDATE_TRANSACTION_ID, COMMIT))
                 = (IF isRevision THEN 0 ELSE 1)
            /\ "REQUEST_POST_UPDATE_FAILURE" \notin types(out)
            /\ noticesOf(out, "error") = {}
            /\ intent.request.isAutosave => "CREATE_NOTICE" \notin types(out)

\* a full save answered with another id: the transaction was reverted
C3_RevisionReverted ==
    /\ settled("save") /\ intent.type = "@@RESOLVED"
    /\ ~intent.request.isAutosave
    /\ intent.response.id # intent.request.post.id
    /\ resolutions(out, POST_UPDATE_TRANSACTION_ID, REVERT) # {}

unresolved(id) ==
    logged(txlog, id).begin - logged(txlog, id).commit - logged(txlog, id).revert

\* C4: in no reachable state are two BEGINs of the save transaction both
\* unresolved.
C4_OneSaveInFlight == unresolved(POST_UPDATE_TRANSACTION_ID) <= 1

\* the save and autosave requests that have not settled
saveRequests == {r \in requests : r.kind = "save"}

\* C4 amended: the BEGINs of the save transaction that are unresolved are
\* never more than the save requests outstanding: one save is in flight at
\* a time as long as no REQUEST_POST_UPDATE passes the gate while a save
\* request is outstanding, which the handler does not prevent.
C4_UnresolvedWithinOutstanding ==
    unresolved(POST_UPDATE_TRANSACTION_ID) <= Cardinality(saveRequests)

\* two saves were requested one after the other and neither has settled
C4_TwoSavesInFlight ==
    /\ Cardinality(saveRequests) = 2
    /\ unresolved(POST_UPDATE_TRANSACTION_ID) = 2

\* C5: the completion of a request dispatches a follow-up: the success path
\* when the request succeeds, the failure path when it fails.
C5_CompletionDispatches ==
    intent.type \in {"@@RESOLVED", "@@REJECTED"} => out # <<>>

\* C6: a request that fails ends in a notice, in the REVERT of a
\* transaction, or in both.
C6_FailureNoticeOrRevert ==
    intent.type = "@@REJECTED" =>
        \E i \in 1..Len(out) :
            \/ out[i].type = "CREATE_NOTICE"
            \/ "optimist" \in DOMAIN out[i] /\ out[i].optimist.type = REVERT

\* C7: a REQUEST_POST_UPDATE whose saveability predicate is false does
\* nothing: nothing is dispatched (no BEGIN, no optimistic update, no notice
\* removed or created), no request is issued and the store is unchanged.
C7_GatedSaveIsNoOp ==
    [][(intent'.type = "REQUEST_POST_UPDATE" /\ ~intent'.isSaveable) =>
            /\ out' = <<>>
            /\ UNCHANGED <<state, requests, nreq, txlog>>]_vars

\* a gated save request arrived while edits were pending
C7_GatedWithEdits ==
    /\ intent.type = "REQUEST_POST_UPDATE" /\ ~intent.isSaveable
    /\ DOMAIN state.edits # {}

\* the entry named by a DELETE_REUSABLE_BLOCK is missing from s or temporary
refused(a, s) ==
    /\ a.type = "DELETE_REUSABLE_BLOCK"
    /\ \/ a.id \notin DOMAIN s.reusableBlocks
       \/ s.reusableBlocks[a.id].isTemporary

\* C8: a DELETE_REUSABLE_BLOCK naming an entry that is temporary or does not
\* exist does nothing: no request is issued, no transaction begun, no block
\* removed, no notice dispatched, and the store is unchanged.
C8_RefusedDeleteIsNoOp ==
    [][refused(intent', state) =>
            /\ out' = <<>>
            /\ UNCHANGED <<state, requests, nreq, uid, txlog>>]_vars

\* the delete of a temporary entry was asked for, the route being known
C8_TemporaryDeleteRefused ==
    /\ intent.type = "DELETE_REUSABLE_BLOCK" /\ intent.basePath
    /\ intent.id \in DOMAIN state.reusableBlocks
    /\ state.reusableBlocks[intent.id].isTemporary

\* C9: an entry is promoted from temporary to persisted once: no temporary
\* id is named by a second SAVE_REUSABLE_BLOCK_SUCCESS, also when two saves
\* of the entry have their requests outstanding together.
C9_PromotedOnce == \A id \in DOMAIN promoted : promoted[id] <= 1

\* a MERGE_BLOCKS whose first block is of a type without merge
unmergeable(a, s) ==
    /\ a.type = "MERGE_BLOCKS"
    /\ ~hasMerge(s.blocks[a.blocks[1]].name)

selectionIs(s, id) == s.blockSelection = [start |-> id, end |-> id]

\* C10 as stated: a merge whose first block's type has no merge leaves the
\* tree unchanged, dispatches no replace, and selects the first block.
C10_UnmergeableLeavesTree ==
    [][unmergeable(intent', state) =>
            /\ "REPLACE_BLOCKS" \notin types(out')
            /\ selectionIs(state', intent'.blocks[1])
            /\ state'.blocks = state.blocks
            /\ state'.order = state.order]_vars

\* the tree s without the provisional block when one is set and is not id
withoutProvisional(s, id) ==
    IF s.provisionalBlockClientId # 0 /\ s.provisionalBlockClientId # id
    THEN removeFromTree(s, {s.provisionalBlockClientId})
    ELSE s

\* C10 amended: a merge whose first block's type has no merge dispatches no
\* replace and selects the first block; the tree is unchanged but for the
\* provisional block, which is removed (one removeBlock follows the select)
\* when one is set and it is not the first block.
C10_UnmergeableRemovesOnlyProvisional ==
    [][unmergeable(intent', state) =>
            /\ out' = << selectBlock(intent'.blocks[1]) >> \o
                      (IF state.provisionalBlockClientId \notin {0, intent'.blocks[1]}
                       THEN << removeBlock(state.provisionalBlockClientId, FALSE) >>
                       ELSE <<>>)
            /\ selectionIs(state', intent'.blocks[1])
            /\ state'.blocks = withoutProvisional(state, intent'.blocks[1]).blocks
            /\ state'.order = withoutProvisional(state, intent'.blocks[1]).order]_vars

\* such a merge happened while a provisional block was set: it was removed
C10_ProvisionalRemovedByMerge ==
    /\ intent.type = "MERGE_BLOCKS"
    /\ intent.blocks[1] \in DOMAIN state.blocks
    /\ ~hasMerge(state.blocks[intent.blocks[1]].name)
    /\ selectionIs(state, intent.blocks[1])
    /\ "REMOVE_BLOCKS" \in types(out)

\* a MERGE_BLOCKS whose first block's type has a merge, whose second block
\* is of another type, and for which no transform to the first type exists
untransformable(a, s) ==
    /\ a.type = "MERGE_BLOCKS"
    /\ hasMerge(s.blocks[a.blocks[1]].name)
    /\ s.blocks[a.blocks[1]].name # s.blocks[a.blocks[2]].name
    /\ switchToBlockType(getBlock(s, a.blocks[2]), s.blocks[a.blocks[1]].name, 0) = <<>>

\* C11: a merge whose first block's type has a merge, whose blocks differ
\* in type and whose second block transforms into no block of the first
\* type aborts with no mutation: nothing is dispatched (no replace, no
\* select) and the store, the tree and the selection included, is unchanged.
C11_UntransformableAborts ==
    [][untransformable(intent', state) =>
            /\ out' = <<>>
            /\ UNCHANGED <<state, requests, nreq, nextClientId>>]_vars

\* the merge of a heading with the reference block after it was attempted
\* while another block was selected
C11_HeadingWithReference ==
    /\ intent.type = "MERGE_BLOCKS"
    /\ {intent.blocks[1], intent.blocks[2]} \subseteq DOMAIN state.blocks
    /\ untransformable(intent, state)
    /\ state.blocks[intent.blocks[1]].name = "core/heading"
    /\ state.blocks[intent.blocks[2]].name = "core/block"
    /\ state.blockSelection.start \notin {0, intent.blocks[1]}

\* the REPLACE_BLOCKS actions of o that put one block in the place of id
replacementsOf(o, id) ==
    {i \in 1..Len(o) : o[i].type = "REPLACE_BLOCKS" /\ o[i].clientIds = <<id>>
                        /\ Len(o[i].blocks) = 1}

\* C12: converting a block to a reusable block and then converting the
\* reference block that took its place back to a static block restores a
\* block of the original type and attributes in that place, whether the
\* save the conversion triggered is outstanding, has succeeded (the
\* temporary id promoted) or has failed.
C12_ConvertRoundTrip ==
    [][(intent'.type = "CONVERT_BLOCK_TO_STATIC" /\ intent'.clientId \in DOMAIN converted) =>
            \E i \in replacementsOf(out', intent'.clientId) :
                LET newBlock == out'[i].blocks[1]
                    original == converted[intent'.clientId]
                IN  /\ newBlock.name = original.name
                    /\ newBlock.attributes = original.attributes
                    /\ newBlock.clientId \in DOMAIN state'.blocks
                    /\ state'.blocks[newBlock.clientId] = original
                    /\ indexOf(state'.order[0], newBlock.clientId)
                            = indexOf(state.order[0], intent'.clientId)
                    /\ intent'.clientId \notin SeqToSet(state'.order[0])]_vars

\* the reference block of a conversion was converted back
roundTrip == intent.type = "CONVERT_BLOCK_TO_STATIC" /\ intent.clientId \in DOMAIN converted

\* the round trip was made after the temporary id was promoted
C12_RoundTripAfterPromotion ==
    /\ roundTrip
    /\ \E id \in DOMAIN promoted : id \notin DOMAIN state.reusableBlocks
    /\ \E id \in DOMAIN state.reusableBlocks : id \notin {"21", "22"} /\ ~state.reusableBlocks[id].isTemporary
    /\ converted[intent.clientId].name = "core/image"

\* the round trip was made while the save was outstanding
C12_RoundTripWhileSaving ==
    /\ roundTrip
    /\ \E r \in requests : r.kind = "saveReusable"

\* the round trip was made after the save failed
C12_RoundTripAfterFailure ==
    /\ roundTrip
    /\ requests = {} /\ nreq = 1
    /\ \E id \in DOMAIN state.reusableBlocks : state.reusableBlocks[id].isTemporary

\* the store after a refresh issued on c resolved with the resource newPost
refreshed(c, newPost) ==
    Run(c, REFRESH_POST_then(c, [kind |-> "refresh", post |-> getCurrentPost(c.state)],
                             newPost))

\* a second refresh resolving with newPost leaves the store of c1 as it is
refreshedAgain(c1, newPost) == refreshed(c1, newPost).state = c1.state

\* the last step belongs to a refresh: its intent or the completion of its request
isRefreshStep == intent.type = "REFRESH_POST" \/ settled("refresh")

\* C13: REFRESH_POST is idempotent: from every state, a refresh resolving
\* with a resource followed by a second refresh resolving with the same
\* resource leaves the same store after each. A refresh that resolves
\* makes the fetched resource the current post, and no step of a refresh
\* dispatches a BEGIN, COMMIT or REVERT.
C13_RefreshIdempotent ==
    /\ \A newPost \in RefreshResponses([post |-> state.currentPost]) :
            refreshedAgain(refreshed(Context, newPost), newPost)
    /\ isRefreshStep => \A i \in 1..Len(out) : "optimist" \notin DOMAIN out[i]
    /\ (settled("refresh") /\ intent.type = "@@RESOLVED") =>
            /\ out = << resetPost(intent.response) >>
            /\ state.currentPost = intent.response

\* two refreshes were made in sequence and resolved with the same resource,
\* which differs from the post the editor started with
C13_RefreshedTwice ==
    /\ settled("refresh") /\ intent.type = "@@RESOLVED"
    /\ intent.request.n = 2
    /\ intent.request.post = intent.response
    /\ intent.response.title = "x"
    /\ txlog = EmptyObject
    /\ state.currentPost = intent.response

isCreateNotice(a) == a.type = "CREATE_NOTICE"

\* the last step is the success of a full save
fullSaveSucceeded ==
    settled("save") /\ intent.type = "@@RESOLVED" /\ ~intent.request.isAutosave

\* C14: after a full save succeeds the notices dispatched are given by the
\* status the post had before the save and the status returned, each
\* published-family (publish, private, future) or not: none when neither
\* is; one "reverted to draft" success notice without link from published
\* to not published; one success notice with the message of the returned
\* status and a link from not published to published; one "updated"
\* success notice with a link when both are published.
C14_SuccessNoticeByStatus ==
    fullSaveSucceeded =>
        LET was == intent.request.post.status \in {"publish", "private", "future"}
            will == intent.response.status \in {"publish", "private", "future"}
            published == ("publish" :> "Post published!") @@
                         ("private" :> "Post published privately!") @@
                         ("future" :> "Post scheduled!")
        IN  SelectSeq(out, isCreateNotice) =
                IF ~was /\ ~will THEN <<>>
                ELSE IF was /\ ~will
                THEN << createSuccessNotice("Post reverted to draft.", FALSE, SAVE_POST_NOTICE_ID) >>
                ELSE IF ~was /\ will
                THEN << createSuccessNotice(published[intent.response.status], TRUE,
                                            SAVE_POST_NOTICE_ID) >>
                ELSE << createSuccessNotice("Post updated!", TRUE, SAVE_POST_NOTICE_ID) >>

\* a draft was saved and came back scheduled
C14_DraftScheduled ==
    /\ fullSaveSucceeded
    /\ intent.request.post.status = "draft" /\ intent.response.status = "future"
    /\ SAVE_POST_NOTICE_ID \in DOMAIN state.notices
    /\ state.notices[SAVE_POST_NOTICE_ID].content = "Post scheduled!"

\* a published post was saved and came back a draft
C14_PublishedReverted ==
    /\ fullSaveSucceeded
    /\ intent.request.post.status = "publish" /\ intent.response.status = "draft"
    /\ Len(SelectSeq(out, isCreateNotice)) = 1

\* a published post was saved and came back published privately
C14_PublishedUpdated ==
    /\ fullSaveSucceeded
    /\ intent.request.post.status = "publish" /\ intent.response.status = "private"
    /\ Len(SelectSeq(out, isCreateNotice)) = 1

\* a draft was saved and came back a draft
C14_DraftSaved ==
    /\ fullSaveSucceeded
    /\ intent.request.post.status = "auto-draft" /\ intent.response.status = "draft"
    /\ SelectSeq(out, isCreateNotice) = <<>>

\* the message of the notice of a trash request that failed with error
trashFailureMessage(error) ==
    IF error.message = "" \/ error.code = "unknown_error" THEN "Trashing failed"
    ELSE error.message

\* C15: a trash request that fails ends in one error notice under the
\* trash notice id and leaves the document as it was; the notice carries
\* the message of the server, or "Trashing failed" when that message is
\* absent or the code is "unknown_error". A trash request that succeeds
\* sets the status of the document to "trash", alters no other field of
\* it, and dispatches no notice.
C15_TrashOutcome ==
    [][/\ (intent'.type = "@@REJECTED" /\ intent'.request.kind = "trash") =>
            /\ SelectSeq(out', isCreateNotice) =
                    << createErrorNotice(trashFailureMessage(intent'.error),
                                         TRASH_POST_NOTICE_ID) >>
            /\ state'.notices[TRASH_POST_NOTICE_ID].content = trashFailureMessage(intent'.error)
            /\ state' = [state EXCEPT !.notices = state'.notices]
       /\ (intent'.type = "@@RESOLVED" /\ intent'.request.kind = "trash") =>
            /\ SelectSeq(out', isCreateNotice) = <<>>
            /\ state'.currentPost = [state.currentPost EXCEPT !.status = "trash"]
            /\ state'.blocks = state.blocks /\ state'.order = state.order]_vars

\* the trash request was refused by the server with a message of its own
C15_TrashForbidden ==
    /\ settled("trash") /\ intent.type = "@@REJECTED"
    /\ intent.error = [code |-> "forbidden", message |-> "No."]
    /\ TRASH_POST_NOTICE_ID \in DOMAIN state.notices
    /\ state.notices[TRASH_POST_NOTICE_ID].content = "No."
    /\ state.currentPost.status # "trash"

\* the trash request failed with the generic code
C15_TrashUnknownError ==
    /\ settled("trash") /\ intent.type = "@@REJECTED"
    /\ intent.error.code = "unknown_error"
    /\ state.notices[TRASH_POST_NOTICE_ID].content = "Trashing failed"

\* the trash request succeeded on a post with a title of its own
C15_Trashed ==
    /\ settled("trash") /\ intent.type = "@@RESOLVED"
    /\ state.currentPost = [id |-> 7, status |-> "trash", title |-> "x"]

\* the names of the top-level blocks of the tree of s, in order
treeNames(s) == [i \in 1..Len(s.order[0]) |-> s.blocks[s.order[0][i]].name]

\* the validity flag of s is false exactly when a template exists, its lock
\* is "all" and the tree does not match it
validityRecomputed(s) ==
    s.isValidTemplate = ~(/\ s.template # NoTemplate
                          /\ s.templateLock = "all"
                          /\ treeNames(s) # s.template)

\* C16: after a SETUP_EDITOR with raw content and after every
\* CHECK_TEMPLATE_VALIDITY the validity flag is false exactly when a
\* template exists, its lock is "all" and the tree does not match the
\* template; CHECK_TEMPLATE_VALIDITY leaves the tree unchanged;
\* SYNCHRONIZE_TEMPLATE sets the flag to true.
C16_TemplateValidity ==
    [][/\ (intent'.type = "SETUP_EDITOR" /\ intent'.post.content # <<>>) =>
            validityRecomputed(state')
       /\ intent'.type = "CHECK_TEMPLATE_VALIDITY" =>
            /\ validityRecomputed(state')
            /\ state'.blocks = state.blocks /\ state'.order = state.order
       /\ intent'.type = "SYNCHRONIZE_TEMPLATE" => state'.isValidTemplate]_vars

\* a check found a tree that is not empty and does not match the locked template
C16_CheckFoundMismatch ==
    /\ intent.type = "CHECK_TEMPLATE_VALIDITY"
    /\ ~state.isValidTemplate
    /\ state.order[0] # <<>>

\* a setup with raw content that does not match the locked template
C16_SetupFoundMismatch ==
    /\ intent.type = "SETUP_EDITOR" /\ intent.post.content # <<>>
    /\ ~state.isValidTemplate

\* a check found the tree to match the locked template
C16_CheckFoundMatch ==
    /\ intent.type = "CHECK_TEMPLATE_VALIDITY"
    /\ state.isValidTemplate
    /\ state.templateLock = "all" /\ state.template = <<"core/image", "core/paragraph">>

\* a synchronization put a tree that did not match in line with the template
C16_Synchronized ==
    /\ intent.type = "SYNCHRONIZE_TEMPLATE"
    /\ state.templateLock = "all" /\ treeNames(state) = state.template
    /\ nextClientId > 7

\* the state recorded at the BEGIN of the transaction id in the history opt
beforeStateOf(opt, id) ==
    opt[CHOOSE i \in 1..Len(opt) :
            isBeginEntry(opt[i]) /\ matchesTransaction(opt[i].action, id)].beforeState

\* the request of the DELETE_REUSABLE_BLOCK just handled is rejected
deleteRejectedAtOnce ==
    /\ intent.type = "DELETE_REUSABLE_BLOCK"
    /\ intent'.type = "@@REJECTED" /\ intent'.request.kind = "deleteReusable"

\* C17: when the request of a DELETE_REUSABLE_BLOCK fails and its
\* transaction is reverted, the entry, its own block and every block that
\* referenced it are in the store again as they were before the delete, and
\* one error notice with the message of the server is dispatched.
C17_RevertRestoresBlocks ==
    [][deleteRejectedAtOnce =>
            /\ state'.reusableBlocks =
                    beforeStateOf(optimist, intent'.request.transactionId).reusableBlocks
            /\ state'.blocks = beforeStateOf(optimist, intent'.request.transactionId).blocks
            /\ state'.order = beforeStateOf(optimist, intent'.request.transactionId).order
            /\ SelectSeq(out', isCreateNotice) =
                    << createErrorNotice(intent'.error.message, REUSABLE_BLOCK_NOTICE_ID) >>]_vars

\* the blocks of the tree of s, at any depth, that reference the entry id
referencesIn(s, id) ==
    {b \in descendants(s.order, {0}) \cap DOMAIN s.blocks :
        s.blocks[b].name = "core/block" /\ s.blocks[b].attributes.ref = id}

\* C18: after the request of a DELETE_REUSABLE_BLOCK succeeded and its
\* transaction was committed, no block of the tree, at any depth,
\* references the deleted entry.
C18_NoReferenceLeft ==
    (settled("deleteReusable") /\ intent.type = "@@RESOLVED") =>
        referencesIn(state, intent.request.id) = {}

isSelectBlock(a) == a.type = "SELECT_BLOCK"

\* the handle to select after the removal of the block first from the tree
\* s: the sibling before it, or its parent when it is the first child
handleToSelect(s, first) ==
    LET parent == parentOf(s.order, first)
        i == indexOf(s.order[parent], first)
    IN  IF i > 1 THEN s.order[parent][i - 1] ELSE parent

\* the handle of the block selected in s once the blocks `removed` are gone,
\* -1 when no single block is selected
selectedAfter(s, removed) ==
    IF \/ s.blockSelection.start # s.blockSelection.end
       \/ s.blockSelection.start = 0
       \/ s.blockSelection.start \in descendants(s.order, removed)
    THEN -1 ELSE s.blockSelection.start

\* C19: a REMOVE_BLOCKS with selectPrevious false dispatches no select;
\* with selectPrevious true, the handle to select is computed from the tree
\* before the removal, and a select of that handle is dispatched if and
\* only if it is not the handle of the selected block.
C19_SelectOnlyIfDifferent ==
    [][(intent'.type = "REMOVE_BLOCKS" /\ intent'.clientIds[1] \in SeqToSet(state.order[0])) =>
            SelectSeq(out', isSelectBlock) =
                IF /\ intent'.selectPrevious
                   /\ handleToSelect(state, intent'.clientIds[1])
                        # selectedAfter(state, SeqToSet(intent'.clientIds))
                THEN << selectBlock(handleToSelect(state, intent'.clientIds[1])) >>
                ELSE <<>>]_vars

\* the last step is the failure of a save request
saveFailed == settled("save") /\ intent.type = "@@REJECTED"

\* the status the failed save attempted to set, "" when it set none
attemptedStatus ==
    IF "status" \in DOMAIN intent.request.edits THEN intent.request.edits.status ELSE ""

\* the message for a failed attempt to set status
statusFailureMessage(status) ==
    CASE status \in {"publish", "private"} -> "Publishing failed"
      [] status = "future" -> "Scheduling failed"
      [] OTHER -> "Updating failed"

\* the notices a failed save dispatches when its message is message
failureNotices(message) ==
    IF intent.error.code = "rest_autosave_no_changes" THEN <<>>
    ELSE << createErrorNotice(message, SAVE_POST_NOTICE_ID) >>

\* C20 as stated: a save that fails reverts its transaction and dispatches
\* no notice when the error is the "no changes" one, and otherwise one
\* error notice under the save notice id whose message is the
\* status-specific one whenever the attempted status is published-family
\* and "Updating failed" in every other case.
C20_FailureMessageByAttemptedStatus ==
    saveFailed =>
        /\ Cardinality(resolutions(out, POST_UPDATE_TRANSACTION_ID, REVERT)) = 1
        /\ SelectSeq(out, isCreateNotice) = failureNotices(statusFailureMessage(attemptedStatus))

\* C20 amended: as above, but the message is the status-specific one only
\* when the attempted status is published-family and the post was not
\* published-family when the save was requested; a failed save of a post
\* already published reports "Updating failed" whatever status it attempted.
C20_FailureMessageUnlessPublished ==
    saveFailed =>
        /\ Cardinality(resolutions(out, POST_UPDATE_TRANSACTION_ID, REVERT)) = 1
        /\ SelectSeq(out, isCreateNotice) =
                failureNotices(IF intent.request.post.status \in {"publish", "private", "future"}
                               THEN "Updating failed"
                               ELSE statusFailureMessage(attemptedStatus))

\* the save of a published post that attempted to schedule it failed
C20_PublishedScheduleFailed ==
    /\ saveFailed
    /\ intent.request.post.status = "publish" /\ attemptedStatus = "future"
    /\ intent.error.code = "forbidden"
    /\ state.notices[SAVE_POST_NOTICE_ID].content = "Updating failed"

\* the save of a draft that attempted to publish it failed
C20_DraftPublishFailed ==
    /\ saveFailed
    /\ intent.request.post.status = "draft" /\ attemptedStatus = "publish"
    /\ intent.error.code = "forbidden"
    /\ state.notices[SAVE_POST_NOTICE_ID].content = "Publishing failed"

\* a save failed for want of changes
C20_NoChangesSilent ==
    /\ saveFailed
    /\ intent.error.code = "rest_autosave_no_changes"
    /\ ~intent.request.isAutosave
    /\ SAVE_POST_NOTICE_ID \notin DOMAIN state.notices


\* a MERGE_BLOCKS that succeeds: the first block's type has a merge and the
\* second block is of that type or transforms into at least one such block
mergeable(a, s) ==
    /\ a.type = "MERGE_BLOCKS"
    /\ hasMerge(s.blocks[a.blocks[1]].name)
    /\ \/ s.blocks[a.blocks[1]].name = s.blocks[a.blocks[2]].name
       \/ switchToBlockType(getBlock(s, a.blocks[2]), s.blocks[a.blocks[1]].name, 0) # <<>>

\* the blocks the second block of the merge a counts as, in the first's type
transformed(a, s, fresh) ==
    IF s.blocks[a.blocks[1]].name = s.blocks[a.blocks[2]].name
    THEN << getBlock(s, a.blocks[2]) >>
    ELSE switchToBlockType(getBlock(s, a.blocks[2]), s.blocks[a.blocks[1]].name, fresh)

\* the list of siblings after the merge a: the pair gives way to the first
\* block and the transformed blocks beyond the first (a provisional block
\* that the select of the first block removed is gone too)
siblingsAfterMerge(a, s, fresh) ==
    LET root == parentOf(s.order, a.blocks[1])
        provisional == withoutProvisional(s, a.blocks[1])
    IN  replaceInList(FilterSeq(s.order[root], (DOMAIN provisional.blocks) \cup {a.blocks[2]}),
                      a.blocks[1],
                      <<a.blocks[1]>> \o clientIdsOf(Tail(transformed(a, s, fresh))),
                      {a.blocks[2]})

\* C21: for every successful merge (the first block's type has a merge and
\* the second block is of the same type or transforms into at least one
\* block of that type) the pair [first, second] is replaced by one block
\* with the first block's client id and inner blocks, whose attributes are
\* the result of the type's merge applied to (first.attributes,
\* transformed[0].attributes), followed in order by the transformed blocks
\* beyond index 0; the second block's client id is no longer in the tree
\* and the selection is on the first block.
C21_SuccessfulMerge ==
    [][mergeable(intent', state) =>
        LET a == intent'
            root == parentOf(state.order, a.blocks[1])
            rest == Tail(transformed(a, state, nextClientId))
        IN  /\ state'.order[root] = siblingsAfterMerge(a, state, nextClientId)
            /\ state'.order[a.blocks[1]] = state.order[a.blocks[1]]
            /\ state'.blocks[a.blocks[1]] =
                    [name |-> state.blocks[a.blocks[1]].name,
                     attributes |->
                        mergeAttributes(state.blocks[a.blocks[1]].name,
                                        state.blocks[a.blocks[1]].attributes,
                                        transformed(a, state, nextClientId)[1].attributes)]
            /\ \A i \in 1..Len(rest) :
                    state'.blocks[rest[i].clientId] =
                        [name |-> rest[i].name, attributes |-> rest[i].attributes]
            /\ a.blocks[2] \notin DOMAIN state'.blocks
            /\ selectionIs(state', a.blocks[1])]_vars

\* C21 amended: for every successful merge the pair [first, second] is
\* replaced by one block with the first block's client id and inner blocks,
\* whose attributes are the first block's attributes with the result of the
\* type's merge applied to (first.attributes, transformed[0].attributes)
\* laid over them (an attribute of the first block that the merge result
\* does not name is kept), followed in order by the transformed blocks
\* beyond index 0; the second block's client id is no longer in the tree
\* and the selection is on the first block.
C21_MergedOverFirstAttributes ==
    [][mergeable(intent', state) =>
        LET a == intent'
            root == parentOf(state.order, a.blocks[1])
            rest == Tail(transformed(a, state, nextClientId))
        IN  /\ state'.order[root] = siblingsAfterMerge(a, state, nextClientId)
            /\ state'.order[a.blocks[1]] = state.order[a.blocks[1]]
            /\ state'.blocks[a.blocks[1]] =
                    [name |-> state.blocks[a.blocks[1]].name,
                     attributes |->
                        Spread(state.blocks[a.blocks[1]].attributes,
                            mergeAttributes(state.blocks[a.blocks[1]].name,
                                            state.blocks[a.blocks[1]].attributes,
                                            transformed(a, state, nextClientId)[1].attributes))]
            /\ \A i \in 1..Len(rest) :
                    state'.blocks[rest[i].clientId] =
                        [name |-> rest[i].name, attributes |-> rest[i].attributes]
            /\ a.blocks[2] \notin DOMAIN state'.blocks
            /\ selectionIs(state', a.blocks[1])]_vars

\* the last step was a merge of the blocks a and b that replaced them
mergedPair(a, b) ==
    /\ intent.type = "MERGE_BLOCKS"
    /\ intent.blocks = <<a, b>>
    /\ "REPLACE_BLOCKS" \in types(out)

\* the aligned paragraph 1 was merged with the list 2: it keeps its
\* alignment, has the merged content, is selected, and the second
\* paragraph the list transformed into follows it
C21_AlignedParagraphWithList ==
    /\ mergedPair(1, 2)
    /\ state.blocks[1].attributes = [content |-> "al", align |-> "center"]
    /\ \E i \in 1..(Len(topLevel) - 1) :
            /\ topLevel[i] = 1
            /\ topLevel[i + 1] \notin DOMAIN MergeableBlocks
            /\ state.blocks[topLevel[i + 1]] =
                    [name |-> "core/paragraph", attributes |-> [content |-> "l"]]
    /\ 2 \notin DOMAIN state.blocks
    /\ selectionIs(state, 1)

\* the paragraph 3 was merged with the provisional paragraph 1 after it,
\* which the select of block 3 had removed: block 3 keeps its inner block
C21_MergedWithProvisional ==
    /\ mergedPair(3, 1)
    /\ "REMOVE_BLOCKS" \in types(out)
    /\ state.blocks[3].attributes = [content |-> "ca"]
    /\ state.order[3] = <<5>>
    /\ 1 \notin DOMAIN state.blocks
    /\ selectionIs(state, 3)


\* an intent that changes the selection
selectionChange(a) == a.type \in {"CLEAR_SELECTED_BLOCK", "SELECT_BLOCK", "MULTI_SELECT"}

\* the block that alone is selected once the reducers have run on the
\* selection change a, 0 when there is none
soleSelection(a) ==
    CASE a.type = "SELECT_BLOCK" -> a.clientId
      [] a.type = "MULTI_SELECT" -> IF a.start = a.end THEN a.start ELSE 0
      [] OTHER -> 0

\* what follows a selection change a made while the provisional block is
\* provisional (0 when none is set): its removal, without reselection, when
\* it is set and is not the block selected
provisionalRemoval(provisional, a) ==
    IF provisional # 0 /\ provisional # soleSelection(a)
    THEN << removeBlock(provisional, FALSE) >>
    ELSE <<>>

\* the provisional block of s once the blocks `removed` are gone
provisionalAfter(s, removed) ==
    IF s.provisionalBlockClientId \in descendants(s.order, removed)
    THEN 0 ELSE s.provisionalBlockClientId

\* a select or a removal of blocks
isSelectOrRemove(a) == a.type \in {"SELECT_BLOCK", "REMOVE_BLOCKS"}

\* C22: the chains of follow-up actions end.  A selection change
\* (CLEAR_SELECTED_BLOCK, SELECT_BLOCK, MULTI_SELECT) is followed by the
\* removal of the provisional block if and only if one is set and it is not
\* the selected block, and by nothing else; that removal asks for no
\* reselection and is followed by nothing.  A REMOVE_BLOCKS that asks for
\* reselection is followed by at most one select and, after it, that one
\* removal; one that does not is followed by nothing.  Among the actions
\* of any step, a select or removal that comes next after a selection
\* change is a removal without reselection, and one that comes next after
\* a removal is a select after a removal with reselection: a run of
\* selects and removals is at most removal, select, removal.
C22_ChainsEnd ==
    [][/\ selectionChange(intent') =>
            out' = provisionalRemoval(state.provisionalBlockClientId, intent')
       /\ (intent'.type = "REMOVE_BLOCKS" /\ ~intent'.selectPrevious) => out' = <<>>
       /\ (intent'.type = "REMOVE_BLOCKS" /\ intent'.selectPrevious) =>
            \/ out' = <<>>
            \/ /\ isSelectBlock(out'[1])
               /\ out' = << out'[1] >> \o
                    provisionalRemoval(
                        provisionalAfter(state, SeqToSet(intent'.clientIds)), out'[1])
       /\ \A i \in 1..(Len(out') - 1) : isSelectOrRemove(out'[i + 1]) =>
            /\ selectionChange(out'[i]) =>
                    out'[i + 1].type = "REMOVE_BLOCKS" /\ ~out'[i + 1].selectPrevious
            /\ out'[i].type = "REMOVE_BLOCKS" =>
                    out'[i].selectPrevious /\ isSelectBlock(out'[i + 1])]_vars

\* a REMOVE_BLOCKS asking for reselection was followed by the select of the
\* block before and by the removal of the provisional block, and no more
C22_RemovalSelectedAndRemoved ==
    /\ intent.type = "REMOVE_BLOCKS"
    /\ intent.selectPrevious
    /\ Len(out) = 2
    /\ out[1].type = "SELECT_BLOCK"
    /\ out[2].type = "REMOVE_BLOCKS"
    /\ ~out[2].selectPrevious
    /\ state.provisionalBlockClientId = 0
    /\ out[2].clientIds[1] \notin DOMAIN state.blocks

\* a selection change was made while the provisional block was the block
\* selected by it: nothing followed
C22_ProvisionalSelected ==
    /\ intent.type = "SELECT_BLOCK"
    /\ state.provisionalBlockClientId = intent.clientId
    /\ intent.clientId # 0
    /\ out = <<>>

\* the selection was cleared while a provisional block was set: it was removed
C22_ClearedRemovesProvisional ==
    /\ intent.type = "CLEAR_SELECTED_BLOCK"
    /\ Len(out) = 1
    /\ out[1].type = "REMOVE_BLOCKS"
    /\ ~out[1].selectPrevious

====
